---- MODULE Spec2Model ----
(***************************************************************************)
(* The Balboa bus client of pybalboa: the frame codec of messages.py and   *)
(* the channel arbitration / send queue of clients.py (class Client with   *)
(* the serial transport's _send_internal).  In Spec the transport's recv   *)
(* is an input: each turn of the listen loop takes one decoded frame.      *)
(* ArbitrationSpec decodes the frames from bytes, SerialSpec cuts them     *)
(* from the stream of the port as SerialClient.recv does, TcpSpec follows  *)
(* the constructor, the listen loop, the parsers and the command helpers   *)
(* of TcpClient, and BusSpec puts a second Client on the same bus.         *)
(***************************************************************************)
EXTENDS Integers, Sequences, FiniteSets, TLC

VARIABLES
    channel,           \* Client.channel: None or the channel recorded
    queue,             \* Client.queue: the messages put and not yet taken
    _channel_timeout,  \* Client._channel_timeout: None or a deadline
    now,               \* time.time(), in whole seconds since construction
    wire,              \* the byte strings written to the transport, in order
    errors,            \* number of log.error diagnostics emitted by _onmessage
    raised,            \* exception that ended the listen task, "none" while it runs
    nrecv,             \* number of frames recv has returned
    last,              \* the frame recv returned last
    sent,              \* the messages passed to send, in call order
    pendingSince,      \* when the channel was recorded, until the board addresses it
    connected,         \* TcpClient.connected: the stream to the spa is open
    observed,          \* number of frames handed to onmessage
    op,                \* the codec function applied last, "none" before any
    cls,               \* the class from_bytes was called on
    obj,               \* the message given to the codec, or constructed
    raw,               \* the bytes given to the codec, or produced
    res,               \* what the codec function returned or raised
    stream,            \* the bytes that arrived on the serial port, oldest first
    nread,             \* how many of them SerialClient.recv has read
    instance,          \* the attributes TcpClient's own code has set on self
    tasks,             \* number of listen coroutines passed to ensure_future
    ctor,              \* how the subclass constructor went on after super().__init__()
    notified,          \* number of calls of int_new_data_cb
    writer,            \* the byte strings TcpClient wrote to self.writer, in order
    ret,               \* the bytes read_one_message returned last, <<>> for None
    peer               \* a second Client on the same bus: its channel, its writes

vars == <<channel, queue, _channel_timeout, now, wire, errors, raised,
          nrecv, last, sent, pendingSince, connected, observed,
          op, cls, obj, raw, res, stream, nread, instance, tasks, ctor, notified,
          writer, ret, peer>>

\* The variables of the client, those of a codec call, and those of the
\* transport subclasses.
client == <<channel, queue, _channel_timeout, now, wire, errors, raised,
            nrecv, last, sent, pendingSince, connected, observed>>
codec == <<op, cls, obj, raw, res>>
transport == <<stream, nread, instance, tasks, ctor, notified, writer, ret, peer>>

\* Python's None, for a channel and for a deadline (both are >= 0 otherwise).
None == -1

---------------------------------------------------------------------------
\* Bounds of the model.

\* Frames the listen task receives in one behaviour.
MaxFrames == 4
\* Messages callers pass to send in one behaviour.
MaxSends == 2
\* The clock stops advancing at MaxTime; it advances TickStep seconds at a time.
MaxTime == 15
TickStep == 5
MaxData == 3

---------------------------------------------------------------------------
\* messages.py: the frame codec.

BROADCAST_CHANNEL == 255
DELIMITER == 126

CRC_TABLE == <<
      0,   7,  14,   9,  28,  27,  18,  21,  56,  63,  54,  49,  36,  35,  42,  45,
    112, 119, 126, 121, 108, 107,  98, 101,  72,  79,  70,  65,  84,  83,  90,  93,
    224, 231, 238, 233, 252, 251, 242, 245, 216, 223, 214, 209, 196, 195, 202, 205,
    144, 151, 158, 153, 140, 139, 130, 133, 168, 175, 166, 161, 180, 179, 186, 189,
    199, 192, 201, 206, 219, 220, 213, 210, 255, 248, 241, 246, 227, 228, 237, 234,
    183, 176, 185, 190, 171, 172, 165, 162, 143, 136, 129, 134, 147, 148, 157, 154,
     39,  32,  41,  46,  59,  60,  53,  50,  31,  24,  17,  22,   3,   4,  13,  10,
     87,  80,  89,  94,  75,  76,  69,  66, 111, 104,  97, 102, 115, 116, 125, 122,
    137, 142, 135, 128, 149, 146, 155, 156, 177, 182, 191, 184, 173, 170, 163, 164,
    249, 254, 247, 240, 229, 226, 235, 236, 193, 198, 207, 200, 221, 218, 211, 212,
    105, 110, 103,  96, 117, 114, 123, 124,  81,  86,  95,  88,  77,  74,  67,  68,
     25,  30,  23,  16,   5,   2,  11,  12,  33,  38,  47,  40,  61,  58,  51,  52,
     78,  73,  64,  71,  82,  85,  92,  91, 118, 113, 120, 127, 106, 109, 100,  99,
     62,  57,  48,  55,  34,  37,  44,  43,   6,   1,   8,  15,  26,  29,  20,  19,
    174, 169, 160, 167, 178, 181, 188, 187, 150, 145, 152, 159, 138, 141, 132, 131,
    222, 217, 208, 215, 194, 197, 204, 203, 230, 225, 232, 239, 250, 253, 244, 243
>>

\* Bitwise exclusive or of two naturals (Python's ^).
RECURSIVE Xor(_, _)
Xor(a, b) ==
    IF a = 0 THEN b
    ELSE IF b = 0 THEN a
    ELSE (((a % 2) + (b % 2)) % 2) + 2 * Xor(a \div 2, b \div 2)

\* The loop of Message.crc (lines 61-62) from the value c over the bytes of
\* data: one table step per byte, in order.  Several bytes are run as the
\* first half and then the second half, which is the same loop.  The mask
\* & 0xff keeps crc a byte, so the test on c never stops the loop; it has c
\* evaluated before the next step rather than after the last.
RECURSIVE CrcLoop(_, _)
CrcLoop(c, data) ==
    IF data = <<>> \/ c \notin 0..255 THEN c
    ELSE IF Len(data) = 1
    THEN Xor(CRC_TABLE[(Xor(c, data[1]) % 256) + 1], c * 256) % 256
    ELSE LET h == Len(data) \div 2
         IN  CrcLoop(CrcLoop(c, SubSeq(data, 1, h)), SubSeq(data, h + 1, Len(data)))

\* A checksum that starts from zero instead of the XOR-in value.
crc_InitZero(data) == Xor(CrcLoop(0, data), 2)

\* Message.crc
crc(data) == Xor(CrcLoop(2, data), 2)

Message(ch, type_code, arguments) ==
    [channel |-> ch, type_code |-> type_code, arguments |-> arguments]

\* What Message.__bytes__ raises: bytes([x]) raises TypeError for None and
\* ValueError outside 0..255, in the order of lines 37, 38 and 40.
BytesRaises(msg) ==
    IF Len(msg.arguments) + 5 > 255 THEN "ValueError"
    ELSE IF msg.channel = None THEN "TypeError"
    ELSE IF msg.channel \notin 0..255 THEN "ValueError"
    ELSE IF msg.type_code = None THEN "TypeError"
    ELSE IF msg.type_code \notin 0..255 THEN "ValueError"
    ELSE "none"

\* A serialization that writes the flag of an addressed frame on every frame.
__bytes___NoBroadcastFlag(msg) ==
    LET b == <<Len(msg.arguments) + 5, msg.channel, 191, msg.type_code>>
             \o msg.arguments
    IN  <<DELIMITER>> \o b \o <<crc(b), DELIMITER>>

\* Message.__bytes__, for a message it does not raise on.
__bytes__(msg) ==
    LET b == <<Len(msg.arguments) + 5,
               msg.channel,
               IF msg.channel = BROADCAST_CHANNEL THEN 175 ELSE 191,
               msg.type_code>> \o msg.arguments
    IN  <<DELIMITER>> \o b \o <<crc(b), DELIMITER>>

---------------------------------------------------------------------------
\* messages.py: the message catalog, as far as the client uses it.

NewClientClearToSend_TYPE_CODE == 0
ChannelAssignmentRequest_TYPE_CODE == 1
ChannelAssignmentResponse_TYPE_CODE == 2
ChannelAssignmentAcknowlegement_TYPE_CODE == 3
ExistingClientRequest_TYPE_CODE == 4
ExistingClientResponse_TYPE_CODE == 5
ClientClearToSend_TYPE_CODE == 6
NothingToSend_TYPE_CODE == 7
ToggleItemRequest_TYPE_CODE == 17
StatusUpdate_TYPE_CODE == 19
SetTemperatureRequest_TYPE_CODE == 32
SettingsRequest_TYPE_CODE == 34
FilterCyclesMessage_TYPE_CODE == 35

\* The arbitration channel (the CHANNEL of the channel assignment classes).
ARBITRATION_CHANNEL == 254

\* ToggleItemRequest.ItemCode.PUMP_1
PUMP_1 == 4

\* ToggleItemRequest.ItemCode.BLOWER and HEAT_MODE
BLOWER == 12

HEAT_MODE == 81

\* The classes messages.py defines: what an attribute lookup on the module finds.
MessagesNames ==
    {"Message", "NewClientClearToSend", "ChannelAssignmentRequest",
     "ChannelAssignmentResponse", "ChannelAssignmentAcknowlegement",
     "ExistingClientRequest", "ExistingClientResponse", "ClientClearToSend",
     "NothingToSend", "ToggleItemRequest", "StatusUpdate", "SetTemperatureRequest",
     "SetTimeRequest", "SettingsRequest", "FilterCyclesRequest", "InformationRequest",
     "PreferencesRequest", "FaultLogRequest", "FilterCyclesMessage",
     "FilterCyclesResponse", "SetFilterCyclesRequest", "InformationResponse",
     "PreferencesResponse", "SetPreferenceRequest", "SetTemperatureScaleRequest",
     "SetClockModeRequest", "FaultLogResponse", "ConfigurationResponse"}

ChannelAssignmentRequest(arguments) ==
    Message(ARBITRATION_CHANNEL, ChannelAssignmentRequest_TYPE_CODE, arguments)

ChannelAssignmentAcknowlegement(ch) ==
    Message(ch, ChannelAssignmentAcknowlegement_TYPE_CODE, <<>>)

ExistingClientResponse(ch, arguments) ==
    Message(ch, ExistingClientResponse_TYPE_CODE, arguments)

NothingToSend(ch) == Message(ch, NothingToSend_TYPE_CODE, <<>>)

ToggleItemRequest(ch, item) == Message(ch, ToggleItemRequest_TYPE_CODE, <<item, 0>>)

SetTemperatureRequest(ch, temperature) ==
    Message(ch, SetTemperatureRequest_TYPE_CODE, <<temperature>>)

---------------------------------------------------------------------------
\* clients.py: class Client, with SerialClient's _send_internal.

\* Line 18: a deadline is ten seconds after it is armed.
CHANNEL_TIMEOUT == 10

\* What one call of _onmessage has done when it returns or raises: the fields
\* as assigned so far, the frames written, the diagnostics logged, the exception.
Unchanged ==
    [channel |-> channel, queue |-> queue, timeout |-> _channel_timeout,
     out |-> <<>>, errors |-> 0, exc |-> "none"]

\* SerialClient._send_internal: self._s.write(bytes(msg)), after the effects e.
_send_internal(e, msg) ==
    IF BytesRaises(msg) # "none"
    THEN [e EXCEPT !.exc = BytesRaises(msg)]
    ELSE [e EXCEPT !.out = Append(@, __bytes__(msg))]

\* A handler that asks for a channel on every frame that is not an
\* assignment, whatever its type.
OnNoChannel_AskOnAnyFrame(msg) ==
    IF msg.type_code = ChannelAssignmentResponse_TYPE_CODE
    THEN IF msg.arguments = <<>>
         THEN [Unchanged EXCEPT !.exc = "IndexError"]
         ELSE _send_internal([Unchanged EXCEPT !.channel = msg.arguments[1]],
                             ChannelAssignmentAcknowlegement(msg.arguments[1]))
    ELSE _send_internal(Unchanged, ChannelAssignmentRequest(<<2, 241, 115>>))

\* Lines 28-35: the client has no channel.
OnNoChannel(msg) ==
    IF msg.type_code = NewClientClearToSend_TYPE_CODE
    THEN _send_internal(Unchanged, ChannelAssignmentRequest(<<2, 241, 115>>))
    ELSE IF msg.type_code = ChannelAssignmentResponse_TYPE_CODE
    THEN IF msg.arguments = <<>>
         THEN [Unchanged EXCEPT !.exc = "IndexError"]
         ELSE _send_internal([Unchanged EXCEPT !.channel = msg.arguments[1]],
                             ChannelAssignmentAcknowlegement(msg.arguments[1]))
    ELSE Unchanged

\* Lines 37-38: the reply to ExistingClientRequest names the class
\* messages.ExisingClientResponse, which the attribute lookup has to find.
OnExistingClientRequest ==
    IF "ExisingClientResponse" \in MessagesNames
    THEN _send_internal(Unchanged, ExistingClientResponse(channel, <<4, 8, 0>>))
    ELSE [Unchanged EXCEPT !.exc = "AttributeError"]

\* A grant that takes the newest message instead of the oldest.
OnClientClearToSend_Lifo ==
    IF queue = <<>>
    THEN _send_internal(Unchanged, NothingToSend(channel))
    ELSE _send_internal([Unchanged EXCEPT !.queue = SubSeq(queue, 1, Len(queue) - 1)],
                        queue[Len(queue)])

\* A grant that stays silent when the queue is empty.
OnClientClearToSend_SilentWhenIdle ==
    IF queue = <<>>
    THEN Unchanged
    ELSE _send_internal([Unchanged EXCEPT !.queue = Tail(queue)], Head(queue))

\* Lines 39-45: the bus grant.
OnClientClearToSend ==
    IF queue = <<>>
    THEN _send_internal(Unchanged, NothingToSend(channel))
    ELSE _send_internal([Unchanged EXCEPT !.queue = Tail(queue)], Head(queue))

\* Lines 36-46: a frame on the client's channel; line 46 runs unless a send raised.
OnOwnChannel(msg) ==
    LET e == IF msg.type_code = ExistingClientRequest_TYPE_CODE
             THEN OnExistingClientRequest
             ELSE IF msg.type_code = ClientClearToSend_TYPE_CODE
             THEN OnClientClearToSend
             ELSE Unchanged
    IN  IF e.exc = "none" THEN [e EXCEPT !.timeout = None] ELSE e

\* A handler that answers the board's invitation to new clients although the
\* client already holds a channel.
OnOtherChannel_Rerequest(msg) ==
    IF msg.type_code = NewClientClearToSend_TYPE_CODE
    THEN _send_internal(Unchanged, ChannelAssignmentRequest(<<2, 241, 115>>))
    ELSE IF _channel_timeout # None /\ now > _channel_timeout
    THEN [Unchanged EXCEPT !.errors = 1]
    ELSE Unchanged

\* Lines 47-49: a frame on another channel.
OnOtherChannel(msg) ==
    IF _channel_timeout # None /\ now > _channel_timeout
    THEN [Unchanged EXCEPT !.errors = 1]
    ELSE Unchanged

\* A dispatch that does not compare the frame's channel with the client's.
_onmessage_AnyChannel(msg) ==
    IF channel = None THEN OnNoChannel(msg) ELSE OnOwnChannel(msg)

\* A dispatch that takes an assignment whether or not a channel is recorded.
_onmessage_Reassign(msg) ==
    IF channel = None \/ msg.type_code = ChannelAssignmentResponse_TYPE_CODE
    THEN OnNoChannel(msg)
    ELSE IF msg.channel = channel THEN OnOwnChannel(msg)
    ELSE OnOtherChannel(msg)

\* Client._onmessage
_onmessage(msg) ==
    IF channel = None THEN OnNoChannel(msg)
    ELSE IF msg.channel = channel THEN OnOwnChannel(msg)
    ELSE OnOtherChannel(msg)

---------------------------------------------------------------------------
\* Inputs.

\* Client(channel=...): no channel, or a channel configured by the caller.
InitChannels == {None, 5}

\* Frames recv may return: Message.from_bytes builds a plain Message and
\* accepts any channel, type code and payload.
Frames ==
    {Message(ARBITRATION_CHANNEL, NewClientClearToSend_TYPE_CODE, <<>>),
     Message(ARBITRATION_CHANNEL, ChannelAssignmentResponse_TYPE_CODE, <<5, 241, 115>>),
     Message(5, ClientClearToSend_TYPE_CODE, <<>>),
     Message(6, ClientClearToSend_TYPE_CODE, <<>>),
     Message(5, ExistingClientRequest_TYPE_CODE, <<>>),
     Message(5, NothingToSend_TYPE_CODE, <<>>),
     Message(BROADCAST_CHANNEL, StatusUpdate_TYPE_CODE, <<>>)}

Items == {PUMP_1}
Temperatures == {100}

\* No frame yet.
NoFrame == [channel |-> None, type_code |-> None, arguments |-> <<>>]

\* What a codec call leaves behind: the exception raised ("none" for a
\* return), the text of a ValueError, the message and the checksum returned.
Outcome(exc, text, msg, sum) == [exc |-> exc, text |-> text, msg |-> msg, crc |-> sum]

\* No codec function has been applied.
CodecIdle ==
    /\ op = "none"
    /\ cls = "Message"
    /\ obj = NoFrame
    /\ raw = <<>>
    /\ res = Outcome("none", "", NoFrame, None)

---------------------------------------------------------------------------
\* The state after Client.__init__ (lines 12-19).

Init ==
    /\ channel \in InitChannels
    /\ queue = <<>>
    /\ now = 0
    /\ _channel_timeout = IF channel # None THEN now + CHANNEL_TIMEOUT ELSE None
    /\ wire = <<>>
    /\ errors = 0
    /\ raised = "none"
    /\ nrecv = 0
    /\ last = NoFrame
    /\ sent = <<>>
    /\ pendingSince = IF channel # None THEN now ELSE None
    /\ connected = TRUE
    /\ observed = 0
    /\ CodecIdle
    /\ stream = <<>>
    /\ nread = 0
    /\ instance = [n \in {} |-> None]
    /\ tasks = 1
    /\ ctor = "none"
    /\ notified = 0
    /\ writer = <<>>
    /\ ret = <<>>
    /\ peer = [started |-> FALSE, channel |-> None, wire |-> <<>>, raised |-> "none"]

\* Lines 24-25 for the message msg recv returned: _onmessage handles it and
\* onmessage is called with it; an exception ends the task.
Turn(msg) ==
    /\ raised = "none"
    /\ nrecv < MaxFrames
    /\ LET e == _onmessage(msg)
       IN  /\ channel' = e.channel
           /\ queue' = e.queue
           /\ _channel_timeout' = e.timeout
           /\ wire' = wire \o e.out
           /\ errors' = errors + e.errors
           /\ raised' = e.exc
           /\ pendingSince' =
                  IF channel = None /\ e.channel # None THEN now
                  ELSE IF channel # None /\ msg.channel = channel THEN None
                  ELSE pendingSince
           /\ observed' = IF e.exc = "none" THEN observed + 1 ELSE observed
    /\ nrecv' = nrecv + 1
    /\ last' = msg
    /\ UNCHANGED <<now, sent, connected, codec>>

\* One turn of the loop of Client.listen (lines 21-25) with a recv that
\* returns msg.
listen(msg) == Turn(msg) /\ UNCHANGED transport

\* A send that refuses the message while the client has no channel.
send_DropUnassigned(msg) ==
    /\ Len(sent) < MaxSends
    /\ queue' = IF channel = None THEN queue ELSE Append(queue, msg)
    /\ sent' = Append(sent, msg)
    /\ UNCHANGED <<channel, _channel_timeout, now, wire, errors, raised, nrecv, last, pendingSince>>
    /\ UNCHANGED <<connected, observed, codec, transport>>

\* A send that writes the message to the transport at once.
send_WriteThrough(msg) ==
    /\ Len(sent) < MaxSends
    /\ wire' = IF BytesRaises(msg) = "none" THEN Append(wire, __bytes__(msg)) ELSE wire
    /\ sent' = Append(sent, msg)
    /\ UNCHANGED <<channel, queue, _channel_timeout, now, errors, raised, nrecv, last,
                   pendingSince>>
    /\ UNCHANGED <<connected, observed, codec, transport>>

\* Client.send (lines 54-56): queue.put on an unbounded queue.
send(msg) ==
    /\ Len(sent) < MaxSends
    /\ queue' = Append(queue, msg)
    /\ sent' = Append(sent, msg)
    /\ UNCHANGED <<channel, _channel_timeout, now, wire, errors, raised, nrecv, last, pendingSince>>
    /\ UNCHANGED <<connected, observed, codec, transport>>

\* Client.toggle_item (lines 75-76)
toggle_item(item) == send(ToggleItemRequest(channel, item))

\* Client.set_temperature (lines 69-70)
set_temperature(t) == send(SetTemperatureRequest(channel, t))

\* Time passes.
Tick ==
    /\ now < MaxTime
    /\ now' = now + TickStep
    /\ UNCHANGED <<channel, queue, _channel_timeout, wire, errors, raised,
                   nrecv, last, sent, pendingSince, connected, observed,
                   codec, transport>>

\* TcpClient.disconnect (lines 150-155): marks the stream closed and closes it.
disconnect ==
    /\ connected
    /\ connected' = FALSE
    /\ UNCHANGED <<channel, queue, _channel_timeout, now, wire, errors, raised,
                   nrecv, last, sent, pendingSince, observed, codec, transport>>

\* TcpClient.connect (lines 138-148), as check_connection_status calls it
\* while the stream is closed (lines 728-730), for a client whose host and
\* port are set: open_connection succeeds, or fails and connected stays as
\* it is.
connect(ok) ==
    /\ ~connected
    /\ connected' = ok
    /\ UNCHANGED <<channel, queue, _channel_timeout, now, wire, errors, raised,
                   nrecv, last, sent, pendingSince, observed, codec, transport>>

Next ==
    \/ \E msg \in Frames : listen(msg)
    \/ \E item \in Items : toggle_item(item)
    \/ \E t \in Temperatures : set_temperature(t)
    \/ Tick

Spec == Init /\ [][Next]_vars

\* The client on a transport that is closed and opened again: the listen loop
\* of Client with disconnect and connect of TcpClient, which constructs the
\* client without a channel (line 128).
ReconnectInit == Init /\ channel = None

ReconnectNext ==
    \/ \E msg \in Frames : listen(msg)
    \/ disconnect
    \/ \E ok \in BOOLEAN : connect(ok)

ReconnectSpec == ReconnectInit /\ [][ReconnectNext]_vars

---------------------------------------------------------------------------
\* The codec of messages.py as functions of their arguments.

\* The class attributes from_bytes looks up with hasattr; None: not defined.
\* Message itself defines none of them.
ClassAttrs(name) ==
    CASE name = "NewClientClearToSend" ->
             [LENGTH |-> 5, CHANNEL |-> ARBITRATION_CHANNEL,
              TYPE_CODE |-> NewClientClearToSend_TYPE_CODE]
      [] name = "ChannelAssignmentRequest" ->
             [LENGTH |-> 8, CHANNEL |-> ARBITRATION_CHANNEL,
              TYPE_CODE |-> ChannelAssignmentRequest_TYPE_CODE]
      [] name = "ChannelAssignmentResponse" ->
             [LENGTH |-> 8, CHANNEL |-> ARBITRATION_CHANNEL,
              TYPE_CODE |-> ChannelAssignmentResponse_TYPE_CODE]
      [] name = "ChannelAssignmentAcknowlegement" ->
             [LENGTH |-> 5, CHANNEL |-> None,
              TYPE_CODE |-> ChannelAssignmentAcknowlegement_TYPE_CODE]
      [] name = "ExistingClientRequest" ->
             [LENGTH |-> 5, CHANNEL |-> None,
              TYPE_CODE |-> ExistingClientRequest_TYPE_CODE]
      [] name = "ExistingClientResponse" ->
             [LENGTH |-> 8, CHANNEL |-> None,
              TYPE_CODE |-> ExistingClientResponse_TYPE_CODE]
      [] name = "ClientClearToSend" ->
             [LENGTH |-> 5, CHANNEL |-> None,
              TYPE_CODE |-> ClientClearToSend_TYPE_CODE]
      [] name = "NothingToSend" ->
             [LENGTH |-> 5, CHANNEL |-> None,
              TYPE_CODE |-> NothingToSend_TYPE_CODE]
      [] name = "ToggleItemRequest" ->
             [LENGTH |-> 7, CHANNEL |-> None,
              TYPE_CODE |-> ToggleItemRequest_TYPE_CODE]
      [] name = "StatusUpdate" ->
             [LENGTH |-> 28, CHANNEL |-> BROADCAST_CHANNEL,
              TYPE_CODE |-> StatusUpdate_TYPE_CODE]
      [] name = "SetTemperatureRequest" ->
             [LENGTH |-> 6, CHANNEL |-> None,
              TYPE_CODE |-> SetTemperatureRequest_TYPE_CODE]
      [] name = "FilterCyclesRequest" ->
             [LENGTH |-> 8, CHANNEL |-> None,
              TYPE_CODE |-> SettingsRequest_TYPE_CODE]
      [] name = "FilterCyclesMessage" ->
             [LENGTH |-> 13, CHANNEL |-> None,
              TYPE_CODE |-> FilterCyclesMessage_TYPE_CODE]
      [] OTHER ->
             [LENGTH |-> None, CHANNEL |-> None, TYPE_CODE |-> None]

\* The texts of the ValueErrors of Message.from_bytes (lines 69-78; the
\* class name the code appends to three of them is left out).
BadDelimiter == "Messages must start and end with Message.DELIMITER"
BadLength == "Invalid length"
BadChannel == "Invalid channel"
BadTypeCode == "Invalid message type code"
BadChecksum == "Invalid checksum"

Raise(exc, text) == Outcome(exc, text, NoFrame, None)
Return(msg) == Outcome("none", "", msg, None)

\* A decoder that compares the trailing byte with the checksum of the whole
\* interior, the trailing byte included.
Message_from_bytes_CrcAll(c, b) ==
    IF b = <<>> THEN Raise("IndexError", "")
    ELSE IF b[1] # DELIMITER \/ b[Len(b)] # DELIMITER
    THEN Raise("ValueError", BadDelimiter)
    ELSE LET i == SubSeq(b, 2, Len(b) - 1)
             a == ClassAttrs(c)
         IN  IF Len(i) < 5 \/ i[1] # Len(i) \/ (a.LENGTH # None /\ i[1] # a.LENGTH)
             THEN Raise("ValueError", BadLength)
             ELSE IF a.CHANNEL # None /\ i[2] # a.CHANNEL
             THEN Raise("ValueError", BadChannel)
             ELSE IF a.TYPE_CODE # None /\ i[4] # a.TYPE_CODE
             THEN Raise("ValueError", BadTypeCode)
             ELSE IF i[Len(i)] # crc(i)
             THEN Raise("ValueError", BadChecksum)
             ELSE Return(Message(i[2], i[4], SubSeq(i, 5, Len(i) - 1)))

\* A decoder that verifies the checksum before it looks at the length byte.
Message_from_bytes_ChecksumFirst(c, b) ==
    IF b = <<>> THEN Raise("IndexError", "")
    ELSE IF b[1] # DELIMITER \/ b[Len(b)] # DELIMITER
    THEN Raise("ValueError", BadDelimiter)
    ELSE LET i == SubSeq(b, 2, Len(b) - 1)
             a == ClassAttrs(c)
         IN  IF Len(i) < 5
             THEN Raise("ValueError", BadLength)
             ELSE IF i[Len(i)] # crc(SubSeq(i, 1, Len(i) - 1))
             THEN Raise("ValueError", BadChecksum)
             ELSE IF i[1] # Len(i) \/ (a.LENGTH # None /\ i[1] # a.LENGTH)
             THEN Raise("ValueError", BadLength)
             ELSE IF a.CHANNEL # None /\ i[2] # a.CHANNEL
             THEN Raise("ValueError", BadChannel)
             ELSE IF a.TYPE_CODE # None /\ i[4] # a.TYPE_CODE
             THEN Raise("ValueError", BadTypeCode)
             ELSE Return(Message(i[2], i[4], SubSeq(i, 5, Len(i) - 1)))

\* Message.from_bytes (lines 65-79), called on class c with the bytes b.
\* b[0] of no bytes raises IndexError; b[1:-1] of one byte is empty.
Message_from_bytes(c, b) ==
    IF b = <<>> THEN Raise("IndexError", "")
    ELSE IF b[1] # DELIMITER \/ b[Len(b)] # DELIMITER
    THEN Raise("ValueError", BadDelimiter)
    ELSE LET i == SubSeq(b, 2, Len(b) - 1)
             a == ClassAttrs(c)
         IN  IF Len(i) < 5 \/ i[1] # Len(i) \/ (a.LENGTH # None /\ i[1] # a.LENGTH)
             THEN Raise("ValueError", BadLength)
             ELSE IF a.CHANNEL # None /\ i[2] # a.CHANNEL
             THEN Raise("ValueError", BadChannel)
             ELSE IF a.TYPE_CODE # None /\ i[4] # a.TYPE_CODE
             THEN Raise("ValueError", BadTypeCode)
             ELSE IF i[Len(i)] # crc(SubSeq(i, 1, Len(i) - 1))
             THEN Raise("ValueError", BadChecksum)
             ELSE Return(Message(i[2], i[4], SubSeq(i, 5, Len(i) - 1)))

\* ExistingClientRequest.__init__ and ClientClearToSend.__init__
ExistingClientRequest(ch) == Message(ch, ExistingClientRequest_TYPE_CODE, <<>>)
ClientClearToSend(ch) == Message(ch, ClientClearToSend_TYPE_CODE, <<>>)

\* FilterCyclesRequest.__init__, through SettingsRequest.__init__
FilterCyclesRequest(ch) == Message(ch, SettingsRequest_TYPE_CODE, <<1, 0, 0>>)

\* StatusUpdate.__init__ (lines 206-233) on the keyword arguments f: the 23
\* payload bytes, or the ValueError of bytes() for a value outside 0..255.
\* Line 219 shifts the sum: + binds tighter than <<.
StatusUpdate(f) ==
    LET arguments ==
            <<0,
              f.priming_mode % 2,
              f.current_temperature,
              f.hours,
              f.minutes,
              f.heating_mode % 4,
              0, 0, 0,
              ((f.filter_mode % 4) * 4) + ((f.time_mode % 2) * 2)
                  + (f.temperature_scale % 2),
              (((f.heating_status % 4) * 16) + (f.temperature_range % 2)) * 8,
              f.pump_status,
              0,
              (f.circ_pump % 2) * 2,
              ((f.light_status % 2) * 2) + (f.light_status % 2),
              0, 0, 0, 0, 0,
              f.set_temperature,
              0, 0>>
    IN  IF \E k \in 1..Len(arguments) : arguments[k] \notin 0..255
        THEN Raise("ValueError", "")
        ELSE Return(Message(BROADCAST_CHANNEL, StatusUpdate_TYPE_CODE, arguments))

\* None where a datetime.time is expected.
NoTime == [hour |-> None, minute |-> None]

\* FilterCyclesMessage.__init__ (lines 422-444) on the arguments f: times as
\* hour and minute, durations as timedelta.seconds, start2 and duration2
\* given or None.  Line 429 subtracts the hours of duration1.
FilterCyclesMessage(f) ==
    LET duration1h == f.duration1 \div 3600
        duration1m == (f.duration1 - duration1h * 3600) \div 60
        two == f.start2 # NoTime /\ f.duration2 # None
        start2h == IF two THEN 128 + f.start2.hour ELSE 0
        start2m == IF two THEN f.start2.minute ELSE 0
        duration2h == IF two THEN f.duration2 \div 3600 ELSE 0
        duration2m == IF two THEN (f.duration2 - duration1h * 3600) \div 60 ELSE 0
        arguments == <<f.start1.hour, f.start1.minute, duration1h, duration1m,
                       start2h, start2m, duration2h, duration2m>>
    IN  IF \E k \in 1..Len(arguments) : arguments[k] \notin 0..255
        THEN Raise("ValueError", "")
        ELSE Return(Message(f.channel, FilterCyclesMessage_TYPE_CODE, arguments))

\* The keyword arguments StatusUpdate.from_bytes (lines 287-306) decodes from
\* the payload a (the source's b[k] is a[k + 1] here).
StatusUpdate_fields(a) ==
    [priming_mode |-> a[2] % 2,
     current_temperature |-> a[3],
     hours |-> a[4],
     minutes |-> a[5],
     heating_mode |-> a[6] % 4,
     filter_mode |-> (a[10] \div 4) % 4,
     time_mode |-> (a[10] % 2) \div 2,
     temperature_scale |-> a[10] % 2,
     heating_status |-> (a[11] % 4) \div 16,
     temperature_range |-> ((a[11] \div 2) % 2) * 2,
     pump_status |-> a[12],
     circ_pump |-> a[14],
     light_status |-> a[15],
     set_temperature |-> a[21]]

\* cls.from_bytes(b): Message.from_bytes, or the override of the class.
\* NewClientClearToSend() reads self.TYPE; FilterCyclesRequest.from_bytes and
\* FilterCyclesMessage.from_bytes read msg.payload: neither attribute exists.
from_bytes(c, b) ==
    LET r == Message_from_bytes(c, b)
        a == r.msg.arguments
    IN  IF r.exc # "none" THEN r
        ELSE CASE c = "NewClientClearToSend" -> Raise("AttributeError", "")
               [] c = "ClientClearToSend" -> Return(ClientClearToSend(r.msg.channel))
               [] c = "NothingToSend" -> Return(NothingToSend(r.msg.channel))
               [] c = "FilterCyclesRequest" -> Raise("AttributeError", "")
               [] c = "FilterCyclesMessage" -> Raise("AttributeError", "")
               [] c = "StatusUpdate" -> StatusUpdate(StatusUpdate_fields(a))
               [] OTHER -> r

---------------------------------------------------------------------------
\* The codec applied to enumerated arguments: each behaviour makes one call.

\* n bytes of value v.
Fill(n, v) == [k \in 1..n |-> v]

Replace(b, k, v) == [b EXCEPT ![k] = v]

\* x with bit k inverted.
FlipBit(x, k) == IF (x \div (2 ^ k)) % 2 = 1 THEN x - (2 ^ k) ELSE x + (2 ^ k)

\* The interior i between delimiters, with the checksum Message.crc gives it.
Seal(i) == <<DELIMITER>> \o i \o <<crc(i), DELIMITER>>

\* The interior of the captured information response, checksum excluded.
InformationResponseInterior ==
    <<26, 10, 191, 36, 100, 220, 20, 0, 66, 80, 50, 48, 48, 48, 71, 49,
      4, 81, 128, 12, 107, 1, 10, 2, 0>>

SampleBytes == {0, 1, 126, 255}

\* Arguments of Message.crc: every single byte, every sequence of sample
\* bytes up to MaxData, and the captured interior.
CrcInputs ==
    {<<v>> : v \in 0..255}
        \cup UNION {[1..n -> SampleBytes] : n \in 0..MaxData}
        \cup {InformationResponseInterior}

PayloadLens == {0, 1, 2, 249, 250, 251, 252}

\* Messages given to bytes(): every channel with short payloads, and
\* payloads around the longest the length byte can count.
SerializeInputs ==
    {Message(ch, t, p) : ch \in 0..255, t \in {0, 255}, p \in {<<>>, <<4, 0>>}}
        \cup {Message(ch, StatusUpdate_TYPE_CODE, Fill(n, v)) :
                  ch \in {5, BROADCAST_CHANNEL}, n \in PayloadLens, v \in {0, 170}}

\* Keyword arguments of StatusUpdate().
StatusFields ==
    {[priming_mode |-> pm, current_temperature |-> 98, hours |-> 13,
      minutes |-> 37, heating_mode |-> 1, filter_mode |-> fm, time_mode |-> tm,
      temperature_scale |-> 1, heating_status |-> hs, temperature_range |-> tr,
      pump_status |-> 2, circ_pump |-> cp, light_status |-> ls,
      set_temperature |-> 100] :
        pm \in {1}, fm \in {2}, tm \in {0, 1}, hs \in {0, 1, 2},
        tr \in {0, 1}, cp \in {0, 1}, ls \in {1}}

\* Arguments of FilterCyclesMessage(): one cycle, or two.
FilterCycles ==
    {[channel |-> 5, start1 |-> [hour |-> 8, minute |-> 30], duration1 |-> 5400,
      start2 |-> s2, duration2 |-> d2] :
        s2 \in {NoTime, [hour |-> 20, minute |-> 15]}, d2 \in {None, 3600, 7500}}

\* The messages the constructors of the catalog return, with their class.
Constructed ==
    {[cls |-> "ChannelAssignmentRequest",
      msg |-> ChannelAssignmentRequest(<<2, 241, 115>>)],
     [cls |-> "ChannelAssignmentAcknowlegement",
      msg |-> ChannelAssignmentAcknowlegement(5)],
     [cls |-> "ExistingClientRequest", msg |-> ExistingClientRequest(5)],
     [cls |-> "ExistingClientResponse",
      msg |-> ExistingClientResponse(5, <<4, 8, 0>>)],
     [cls |-> "ClientClearToSend", msg |-> ClientClearToSend(5)],
     [cls |-> "NothingToSend", msg |-> NothingToSend(5)],
     [cls |-> "ToggleItemRequest", msg |-> ToggleItemRequest(5, PUMP_1)],
     [cls |-> "SetTemperatureRequest", msg |-> SetTemperatureRequest(5, 100)],
     [cls |-> "FilterCyclesRequest", msg |-> FilterCyclesRequest(5)]}
        \cup {[cls |-> "StatusUpdate", msg |-> StatusUpdate(f).msg] :
                  f \in {g \in StatusFields : StatusUpdate(g).exc = "none"}}
        \cup {[cls |-> "FilterCyclesMessage", msg |-> FilterCyclesMessage(f).msg] :
                  f \in {g \in FilterCycles : FilterCyclesMessage(g).exc = "none"}}

\* Well-formed frames, and the frame of the board's invitation.
SampleFrames ==
    {__bytes__(x.msg) : x \in Constructed}
        \cup {__bytes__(Message(ARBITRATION_CHANNEL, NewClientClearToSend_TYPE_CODE, <<>>)),
              Seal(InformationResponseInterior)}

\* Status frames of a spa that is heating, in the low and in the high range:
\* payload byte 10 is 10, 18 or 20 (hexadecimal).
HeatingFrames ==
    LET f == __bytes__(StatusUpdate(
                 [priming_mode |-> 1, current_temperature |-> 98, hours |-> 13,
                  minutes |-> 37, heating_mode |-> 1, filter_mode |-> 2,
                  time_mode |-> 0, temperature_scale |-> 1, heating_status |-> 0,
                  temperature_range |-> 0, pump_status |-> 2, circ_pump |-> 0,
                  light_status |-> 1, set_temperature |-> 100]).msg)
    IN  {Seal(Replace(SubSeq(f, 2, Len(f) - 2), 15, v)) : v \in {16, 24, 32}}

\* Bytes given to from_bytes: well-formed frames and their damaged forms.
ParseInputs ==
    SampleFrames
        \cup HeatingFrames
        \cup {<<>>, <<1, 2, 3>>, <<DELIMITER>>}
        \cup {<<DELIMITER>> \o Fill(n, 5) \o <<DELIMITER>> : n \in 0..5}
        \cup UNION {{SubSeq(f, 1, n) : n \in 1..6} : f \in SampleFrames}
        \cup UNION {{Replace(f, 1, 0), Replace(f, Len(f), 0),
                     SubSeq(f, 2, Len(f)), SubSeq(f, 1, Len(f) - 1),
                     Replace(f, 2, f[2] + 1), Replace(f, 2, f[2] - 1),
                     Seal(Replace(SubSeq(f, 2, Len(f) - 2), 1, f[2] + 1)),
                     Seal(Replace(SubSeq(f, 2, Len(f) - 2), 3, 0))} :
                        f \in SampleFrames}
        \cup UNION {{Replace(f, Len(f) - 1, FlipBit(f[Len(f) - 1], k)) : k \in 0..7} :
                        f \in SampleFrames}

ParseClasses ==
    {"Message", "NewClientClearToSend", "ClientClearToSend", "ToggleItemRequest",
     "StatusUpdate", "FilterCyclesRequest"}

\* Message.crc(data)
Checksum(data) ==
    /\ op = "none"
    /\ op' = "crc"
    /\ cls' = "Message"
    /\ obj' = NoFrame
    /\ raw' = data
    /\ res' = Outcome("none", "", NoFrame, crc(data))
    /\ UNCHANGED <<client, transport>>

\* bytes(msg)
Serialize(msg) ==
    /\ op = "none"
    /\ op' = "bytes"
    /\ cls' = "Message"
    /\ obj' = msg
    /\ raw' = IF BytesRaises(msg) = "none" THEN __bytes__(msg) ELSE <<>>
    /\ res' = Raise(BytesRaises(msg), "")
    /\ UNCHANGED <<client, transport>>

\* c.from_bytes(b)
Parse(c, b) ==
    /\ op = "none"
    /\ op' = "from_bytes"
    /\ cls' = c
    /\ obj' = NoFrame
    /\ raw' = b
    /\ res' = from_bytes(c, b)
    /\ UNCHANGED <<client, transport>>

\* c.from_bytes(bytes(msg)) for a message msg constructed by class c.
RoundTrip(c, msg) ==
    /\ op = "none"
    /\ op' = "roundtrip"
    /\ cls' = c
    /\ obj' = msg
    /\ raw' = __bytes__(msg)
    /\ res' = from_bytes(c, __bytes__(msg))
    /\ UNCHANGED <<client, transport>>

CodecInit == Init /\ channel = None

CodecNext ==
    \/ \E data \in CrcInputs : Checksum(data)
    \/ \E msg \in SerializeInputs : Serialize(msg)
    \/ \E c \in ParseClasses, b \in ParseInputs : Parse(c, b)
    \/ \E x \in Constructed : RoundTrip(x.cls, x.msg)

CodecSpec == CodecInit /\ [][CodecNext]_vars

---------------------------------------------------------------------------
\* The receive path from the decode on: SerialClient.recv hands the bytes it
\* cut from the stream to Message.from_bytes of the base class (line 116),
\* drops them on a ValueError (lines 117-118) and returns the message
\* otherwise; Client.listen (lines 21-25) passes it to _onmessage and then
\* to onmessage.

\* The type codes of the classes of messages.py.
CatalogTypeCodes ==
    {0, 1, 2, 3, 4, 5, 6, 7, 17, 19, 32, 33, 34, 35, 36, 38, 39, 40, 46}

\* A type code no class of messages.py carries, and a channel that is
\* neither the arbitration channel nor the one the board assigns here.
UncataloguedTypeCode == 153
OtherChannel == 10

\* The channel the board issues in a second assignment.
SecondChannel == 6

\* The frames on the wire: those of Frames, a frame of an uncatalogued type
\* on the arbitration channel and on the assigned channel, the two
\* arbitration frames on a channel that is not FE, an assignment without a
\* payload, an assignment of a second channel, and a frame whose checksum
\* is wrong.
WireFrames ==
    {__bytes__(m) : m \in Frames}
    \cup {__bytes__(Message(ARBITRATION_CHANNEL, UncataloguedTypeCode, <<>>)),
          __bytes__(Message(5, UncataloguedTypeCode, <<>>)),
          __bytes__(Message(OtherChannel, NewClientClearToSend_TYPE_CODE, <<>>)),
          __bytes__(Message(OtherChannel, ChannelAssignmentResponse_TYPE_CODE, <<5, 241, 115>>)),
          __bytes__(Message(ARBITRATION_CHANNEL, ChannelAssignmentResponse_TYPE_CODE, <<>>)),
          __bytes__(Message(ARBITRATION_CHANNEL, ChannelAssignmentResponse_TYPE_CODE,
                            <<SecondChannel, 241, 115>>)),
          Replace(__bytes__(Message(ARBITRATION_CHANNEL, NewClientClearToSend_TYPE_CODE, <<>>)),
                  6, 0)}

\* Lines 115-119 and 21-25: the bytes decode and the message is handled; on
\* a ValueError recv goes on to the next bytes and listen sees nothing.
receive(b) ==
    /\ Message_from_bytes("Message", b).exc = "none"
    /\ listen(Message_from_bytes("Message", b).msg)

ArbitrationInit == Init /\ channel = None

ArbitrationNext == \E b \in WireFrames : receive(b)

ArbitrationSpec == ArbitrationInit /\ [][ArbitrationNext]_vars

---------------------------------------------------------------------------
\* Two clients on one bus: every frame of the board reaches each client that
\* is listening.  The second client is constructed without a channel and
\* nothing is ever passed to its send, so its queue stays empty and its
\* _channel_timeout stays None.

\* Client._onmessage (lines 27-49) of the client object self for the frame
\* msg: the object afterwards, raised set when the handler raises.
Client_onmessage(self, msg) ==
    IF self.channel = None
    THEN IF msg.type_code = NewClientClearToSend_TYPE_CODE
         THEN [self EXCEPT !.wire = Append(@, __bytes__(ChannelAssignmentRequest(<<2, 241, 115>>)))]
         ELSE IF msg.type_code = ChannelAssignmentResponse_TYPE_CODE
         THEN IF msg.arguments = <<>>
              THEN [self EXCEPT !.raised = "IndexError"]
              ELSE [self EXCEPT !.channel = msg.arguments[1],
                                !.wire = Append(@, __bytes__(ChannelAssignmentAcknowlegement(msg.arguments[1])))]
         ELSE self
    ELSE IF msg.channel = self.channel
    THEN IF msg.type_code = ExistingClientRequest_TYPE_CODE
         THEN IF "ExisingClientResponse" \in MessagesNames
              THEN [self EXCEPT !.wire = Append(@, __bytes__(ExistingClientResponse(self.channel, <<4, 8, 0>>)))]
              ELSE [self EXCEPT !.raised = "AttributeError"]
         ELSE IF msg.type_code = ClientClearToSend_TYPE_CODE
         THEN [self EXCEPT !.wire = Append(@, __bytes__(NothingToSend(self.channel)))]
         ELSE self
    ELSE self

\* Client() for the second client (lines 12-19): it starts to listen.
start ==
    /\ ~peer.started
    /\ peer' = [peer EXCEPT !.started = TRUE]
    /\ UNCHANGED <<client, codec, stream, nread, instance, tasks, ctor, notified,
                   writer, ret>>

\* The board writes the frame b: each client's recv returns it (lines 21-25)
\* and each handles it, the second while its listen task is alive.
broadcast(b) ==
    /\ Message_from_bytes("Message", b).exc = "none"
    /\ Turn(Message_from_bytes("Message", b).msg)
    /\ peer' = IF peer.started /\ peer.raised = "none"
               THEN Client_onmessage(peer, Message_from_bytes("Message", b).msg)
               ELSE peer
    /\ UNCHANGED <<stream, nread, instance, tasks, ctor, notified, writer, ret>>

BusInit == Init

BusNext ==
    \/ start
    \/ \E b \in WireFrames : broadcast(b)

BusSpec == BusInit /\ [][BusNext]_vars

---------------------------------------------------------------------------
\* SerialClient (lines 95-122): recv cuts frames from the byte stream of the
\* port.  The port is opened without a timeout (line 100), so a read waits
\* until the bytes it asks for are there.

\* Most chunks the spa writes to the port in one behaviour.
MaxChunks == 3

\* The attributes of class Message: what Message.<name> finds.
MessageAttributes ==
    {"BROADCAST_CHANNEL", "CRC_TABLE", "DELIMITER", "__init__", "__bytes__",
     "__iter__", "__len__", "__next__", "crc", "from_bytes"}

\* What a call of recv does with the unread bytes s: the exception it
\* raises ("none": it returns msg; "waiting": a read waits for bytes that
\* are not there), and how many bytes of s it has read.
Recv(exc, msg, n) == [exc |-> exc, msg |-> msg, n |-> n]

\* The position of the first byte d of s after position n, 0 if none:
\* read_until(d) returns the bytes up to and including it.
RECURSIVE read_until(_, _, _)
read_until(s, n, d) ==
    IF n >= Len(s) THEN 0
    ELSE IF s[n + 1] = d THEN n + 1
    ELSE read_until(s, n + 1, d)

\* Lines 106-119 with the delimiter d, from position n of s (n bytes read).
\* Line 108 tests b[1], the second byte of all that read_until and read(1)
\* returned; line 110 reads b[1] further bytes.
RECURSIVE scan(_, _, _)
scan(s, n, d) ==
    LET k == read_until(s, n, d)
    IN  IF k = 0 \/ k + 1 > Len(s) THEN Recv("waiting", NoFrame, n)
        ELSE LET b0 == SubSeq(s, n + 1, k + 1)
                 again == b0[2] = d
                 m == IF again THEN k + 2 ELSE k + 1
             IN  IF m > Len(s) THEN Recv("waiting", NoFrame, n)
                 ELSE LET b1 == IF again THEN <<b0[2], s[m]>> ELSE b0
                          e == m + b1[2]
                      IN  IF e > Len(s) THEN Recv("waiting", NoFrame, n)
                          ELSE LET r == Message_from_bytes("Message", b1 \o SubSeq(s, m + 1, e))
                               IN  IF r.exc = "ValueError" THEN scan(s, e, d)
                                   ELSE Recv(r.exc, r.msg, e)

\* SerialClient.recv (lines 102-119) on the bytes s of which n are read.
\* Line 106 looks up messages.Message.DELIMETER before it reads anything.
recv(s, n) ==
    IF "DELIMETER" \notin MessageAttributes
    THEN Recv("AttributeError", NoFrame, n)
    ELSE scan(s, n, DELIMITER)

\* What the spa writes: frames, bytes that belong to no frame, a lone
\* delimiter, a frame whose checksum is wrong.
Chunks ==
    {__bytes__(Message(ARBITRATION_CHANNEL, NewClientClearToSend_TYPE_CODE, <<>>)),
     __bytes__(Message(5, ClientClearToSend_TYPE_CODE, <<>>)),
     Replace(__bytes__(Message(5, ClientClearToSend_TYPE_CODE, <<>>)), 6, 0),
     <<DELIMITER>>, <<1>>, <<1, 2>>, <<3, 1, 2>>}

\* The byte strings of at most n chunks.
RECURSIVE Concats(_)
Concats(n) ==
    IF n = 0 THEN {<<>>}
    ELSE LET p == Concats(n - 1) IN p \cup {x \o c : x \in p, c \in Chunks}

\* Bytes arrive on the port.
arrive(bs) ==
    /\ stream = <<>>
    /\ stream' = bs
    /\ UNCHANGED <<client, codec, nread, instance, tasks, ctor, notified,
                   writer, ret, peer>>

\* One turn of Client.listen (lines 21-25) of a SerialClient: recv returns
\* a message, which is handled, or raises, which ends the task.
SerialListen ==
    /\ raised = "none"
    /\ LET r == recv(stream, nread)
       IN  /\ r.exc # "waiting"
           /\ nread' = r.n
           /\ IF r.exc = "none"
              THEN Turn(r.msg)
              ELSE /\ raised' = r.exc
                   /\ UNCHANGED <<channel, queue, _channel_timeout, now, wire, errors,
                                  nrecv, last, sent, pendingSince, connected, observed, codec>>
    /\ UNCHANGED <<stream, instance, tasks, ctor, notified, writer, ret, peer>>

SerialInit == Init

SerialNext ==
    \/ \E bs \in Concats(MaxChunks) \ {<<>>} : arrive(bs)
    \/ SerialListen

SerialSpec == SerialInit /\ [][SerialNext]_vars

---------------------------------------------------------------------------
\* TcpClient (lines 125-772).  instance holds the attributes the code of
\* TcpClient has assigned on self so far; reading an attribute that is not
\* there raises AttributeError, a global name that is not there NameError.

\* Most calls of int_new_data_cb in one behaviour.
MaxCalls == 3

\* Most byte strings written to self.writer in one behaviour.
MaxWrites == 4

\* The global names of clients.py (lines 1-10 and its three classes).
ClientsNames ==
    {"asyncio", "datetime", "logging", "queue", "time", "SocketError",
     "messages", "Client", "SerialClient", "TcpClient"}

\* The names of module asyncio among those the code looks up.
AsyncioNames ==
    {"ensure_future", "get_running_loop", "open_connection", "sleep", "TimeoutError"}

\* The attributes class TcpClient defines besides its methods.
ClassConstants == {}

Has(self, n) == n \in DOMAIN self
Set(self, n, v) == [x \in DOMAIN self \cup {n} |-> IF x = n THEN v ELSE self[x]]

\* What a method of TcpClient leaves behind: the exception raised ("none"
\* for a return), the attributes of self, the calls of int_new_data_cb, the
\* value returned (<<>> for None), the byte strings written to self.writer.
Did(exc, self, cb, data) ==
    [exc |-> exc, self |-> self, cb |-> cb, data |-> data, out |-> <<>>]

\* (x >> k) & 0x03
Bits2(x, k) == (x \div (2 ^ k)) % 4

\* TcpClient.connect (lines 138-148) with the outcome ok of open_connection:
\* line 141 reads self.host and self.port.
tcp_connect(self, ok) ==
    IF ~Has(self, "host") \/ ~Has(self, "port")
    THEN Did("AttributeError", self, 0, <<>>)
    ELSE IF ok THEN Did("none", Set(self, "connected", TRUE), 0, <<>>)
    ELSE Did("none", self, 0, <<>>)

\* TcpClient.send_panel_req (lines 174-197) with the arguments ba and bb:
\* nothing while the stream is closed; line 185 looks up
\* messages.Message.DELIMETER and line 187 the globals mtypes and
\* BMTS_PANEL_REQ; line 196 writes the ten bytes of the request, whose type
\* bytes are those of the docstring (0A BF 22).
send_panel_req(self, ba, bb) ==
    IF ~Has(self, "connected") THEN Did("AttributeError", self, 0, <<>>)
    ELSE IF ~self.connected THEN Did("none", self, 0, <<>>)
    ELSE IF "DELIMETER" \notin MessageAttributes
    THEN Did("AttributeError", self, 0, <<>>)
    ELSE IF "mtypes" \notin ClientsNames THEN Did("NameError", self, 0, <<>>)
    ELSE [Did("none", self, 0, <<>>) EXCEPT !.out = <<Seal(<<8, 10, 191, 34, ba, 0, bb>>)>>]

\* TcpClient.parse_panel_config_resp (lines 538-570): the pumps of bytes 5
\* and 6 of the response (lines 552-557), the blower of byte 8 (line 564)
\* and config_loaded (line 570);
\* line 552 stores into self.pump_array, lines 560-568 into light_array and
\* aux_array.
parse_panel_config_resp(self, data) ==
    IF ~Has(self, "pump_array") \/ ~Has(self, "light_array") \/ ~Has(self, "aux_array")
    THEN Did("AttributeError", self, 0, <<>>)
    ELSE Did("none",
             Set(Set(Set(self, "pump_array",
                         <<Bits2(data[6], 0), Bits2(data[6], 2), Bits2(data[6], 4),
                           Bits2(data[6], 6), Bits2(data[7], 0), Bits2(data[7], 6)>>),
                     "blower", IF data[9] % 4 # 0 THEN 1 ELSE 0),
                 "config_loaded", TRUE),
             0, <<>>)

\* Lines 632, 638, 639 and 665: the heat mode, the heating state, the
\* temperature range and the blower state read from the frame data (the
\* source's data[k] is data[k + 1] here).
heatmode(data) == data[11] % 4

heatstate(data) == Bits2(data[16], 4)

temprange(data) == (data[16] \div 4) % 2

blower_status(data) == Bits2(data[19], 2)

\* Lines 641-648: the state of pump i (0..5) read from the frame data.
PumpStatus(data, i) ==
    IF i < 4 THEN Bits2(data[17], i) ELSE Bits2(data[18], i - 4)

\* TcpClient.parse_status_update (lines 572-679) on the frame data, whose
\* first byte (data[0] in the source) is the delimiter: the test of
\* config_loaded (590-592), the comparison with prior_status (597-608), the
\* temperature scale (610-613), the heat mode, heating state and range
\* (632-639), the pumps (641-648), the blower (664-665), the copy of the
\* frame (676-678) and the callback (679, with lines 157-165).  The clock,
\* the temperatures, the lights, the mister and the aux outputs are stored
\* by the same kind of assignment and are not carried here.
parse_status_update(self, data) ==
    IF ~Has(self, "config_loaded") THEN Did("AttributeError", self, 0, <<>>)
    ELSE IF ~self.config_loaded THEN send_panel_req(self, 0, 1)
    ELSE IF ~Has(self, "prior_status") THEN Did("AttributeError", self, 0, <<>>)
    ELSE IF \A i \in 1..31 : data[i] = self.prior_status[i]
    THEN Did("none", self, 0, <<>>)
    ELSE IF {"TSCALE_C", "TSCALE_F"} \cap ClassConstants = {}
    THEN Did("AttributeError", self, 0, <<>>)
    ELSE LET h == Set(Set(Set(self, "heatmode", heatmode(data)),
                          "heatstate", heatstate(data)),
                      "temprange", temprange(data))
         IN  IF ~Has(h, "pump_array") \/ ~Has(h, "pump_status")
             THEN Did("AttributeError", h, 0, <<>>)
             ELSE LET ps == [i \in 1..6 |-> IF h.pump_array[i] = 0
                                            THEN h.pump_status[i]
                                            ELSE PumpStatus(data, i - 1)]
                      p == Set(h, "pump_status", ps)
                  IN  IF ~Has(p, "blower") THEN Did("AttributeError", p, 0, <<>>)
                      ELSE LET b == IF p.blower # 0
                                    THEN Set(p, "blower_status", blower_status(data))
                                    ELSE p
                               t == Set(b, "prior_status", SubSeq(data, 1, 31))
                           IN  IF ~Has(t, "new_data_cb")
                               THEN Did("AttributeError", t, 0, <<>>)
                               ELSE Did("none", t, 1, <<>>)

\* The nine bytes change_pump, change_heatmode and change_blower build for
\* the item code item (lines 277-284 and 297-298): length 7, the three bytes
\* of mtypes[BMTS_CONTROL_REQ] (channel 0A, flag BF and the type code of
\* ToggleItemRequest), the item, 00 and the checksum.
ControlRequest(item) == Seal(<<7, 10, 191, ToggleItemRequest_TYPE_CODE, item, 0>>)

\* The value of iter after `for iter in range(0, n): if new == ((cur + iter)
\* % m): break`: the first iter that matches, n - 1 when none does.
LoopIter(n, m, cur, new) ==
    LET hit == {i \in 0..(n - 1) : new = (cur + i) % m}
    IN  IF hit = {} THEN n - 1 ELSE CHOOSE i \in hit : \A j \in hit : i <= j

\* self.writer.write(data) executed n times.
Pushes(self, n, data) ==
    [Did("none", self, 0, <<>>) EXCEPT !.out = [k \in 1..n |-> data]]

\* TcpClient.change_pump (lines 259-301) for pump (0..5) and newstate.
change_pump(self, pump, newstate) ==
    IF ~Has(self, "connected") THEN Did("AttributeError", self, 0, <<>>)
    ELSE IF ~self.connected THEN Did("none", self, 0, <<>>)
    ELSE IF "MAX_PUMPS" \notin ClientsNames THEN Did("NameError", self, 0, <<>>)
    ELSE IF ~Has(self, "pump_array") THEN Did("AttributeError", self, 0, <<>>)
    ELSE IF self.pump_array[pump + 1] = 0 THEN Did("none", self, 0, <<>>)
    ELSE IF ~Has(self, "pump_status") THEN Did("AttributeError", self, 0, <<>>)
    ELSE IF self.pump_status[pump + 1] = newstate THEN Did("none", self, 0, <<>>)
    ELSE IF "DELIMETER" \notin MessageAttributes
    THEN Did("AttributeError", self, 0, <<>>)
    ELSE IF "mtypes" \notin ClientsNames \/ "C_PUMP1" \notin ClientsNames
    THEN Did("NameError", self, 0, <<>>)
    ELSE LET iter == IF self.pump_array[pump + 1] = 2
                     THEN LoopIter(2, 3, self.pump_status[pump + 1], newstate)
                     ELSE 1
         IN  Pushes(self, iter, ControlRequest(PUMP_1 + pump))

\* TcpClient.change_heatmode (lines 303-335) for newmode.
change_heatmode(self, newmode) ==
    IF ~Has(self, "connected") THEN Did("AttributeError", self, 0, <<>>)
    ELSE IF ~self.connected \/ newmode > 2 THEN Did("none", self, 0, <<>>)
    ELSE IF ~Has(self, "heatmode") THEN Did("AttributeError", self, 0, <<>>)
    ELSE IF self.heatmode = newmode THEN Did("none", self, 0, <<>>)
    ELSE IF "DELIMETER" \notin MessageAttributes
    THEN Did("AttributeError", self, 0, <<>>)
    ELSE IF "mtypes" \notin ClientsNames \/ "C_HEATMODE" \notin ClientsNames
    THEN Did("NameError", self, 0, <<>>)
    ELSE Pushes(self, LoopIter(3, 3, self.heatmode, newmode), ControlRequest(HEAT_MODE))

\* TcpClient.change_blower (lines 419-450) for newstate.
change_blower(self, newstate) ==
    IF ~Has(self, "connected") THEN Did("AttributeError", self, 0, <<>>)
    ELSE IF ~self.connected THEN Did("none", self, 0, <<>>)
    ELSE IF ~Has(self, "blower_status") THEN Did("AttributeError", self, 0, <<>>)
    ELSE IF self.blower_status = newstate THEN Did("none", self, 0, <<>>)
    ELSE IF "DELIMETER" \notin MessageAttributes
    THEN Did("AttributeError", self, 0, <<>>)
    ELSE IF "mtypes" \notin ClientsNames \/ "C_BLOWER" \notin ClientsNames
    THEN Did("NameError", self, 0, <<>>)
    ELSE Pushes(self, LoopIter(4, 4, self.blower_status, newstate), ControlRequest(BLOWER))

\* What reader.readexactly does: it returns the bytes, or the socket fails
\* (reset by the peer, host unreachable), or the peer closes the stream and
\* the read ends early.
ReadOutcomes == {"data", "ECONNRESET", "EHOSTUNREACH", "IncompleteReadError"}

\* TcpClient.read_one_message (lines 681-723) when readexactly does as
\* outcome says and the frame f is on the stream.  Line 689 compares with
\* errno.ECONNRESET; lines 698-700 catch every other exception and return
\* None; line 702 looks up messages.Message.DELIMETER; when the second
\* read fails, line 712 calls self.log.errpr; line 717 takes the checksum
\* of full_data[1:rlen - 1].
read_one_message(self, outcome, f) ==
    IF ~Has(self, "connected") THEN Did("AttributeError", self, 0, <<>>)
    ELSE IF ~self.connected THEN Did("none", self, 0, <<>>)
    ELSE IF outcome \in {"ECONNRESET", "EHOSTUNREACH"}
    THEN IF "errno" \notin ClientsNames
         THEN Did("NameError", self, 0, <<>>)
         ELSE Did("none", Set(self, "connected", FALSE), 0, <<>>)
    ELSE IF outcome = "IncompleteReadError" THEN Did("none", self, 0, <<>>)
    ELSE IF "DELIMETER" \notin MessageAttributes
    THEN Did("AttributeError", self, 0, <<>>)
    ELSE IF f[1] # DELIMITER THEN Did("none", self, 0, <<>>)
    ELSE IF Len(f) < f[2] + 2 THEN Did("AttributeError", self, 0, <<>>)
    ELSE LET rlen == f[2]
             full_data == SubSeq(f, 1, rlen + 2)
         IN  IF crc(SubSeq(full_data, 2, rlen - 1)) # full_data[Len(full_data) - 1]
             THEN Did("none", self, 0, <<>>)
             ELSE Did("none", self, 0, full_data)

\* One turn of the loop of TcpClient.listen (lines 738-772): line 742 reads
\* self.connected; find_balboa_mtype (lines 452-461) loops over
\* range(0, NROF_BMT); a status update (FF AF 13, lines 578-580) goes to
\* parse_status_update.
tcp_listen(self, outcome, f) ==
    IF ~Has(self, "connected") THEN Did("AttributeError", self, 0, <<>>)
    ELSE IF ~self.connected THEN Did("none", self, 0, <<>>)
    ELSE LET m == read_one_message(self, outcome, f)
         IN  IF m.exc # "none" \/ m.data = <<>> THEN m
             ELSE IF "NROF_BMT" \notin ClientsNames
             THEN Did("NameError", m.self, 0, <<>>)
             ELSE IF SubSeq(m.data, 3, 5) = <<255, 175, 19>>
             THEN parse_status_update(m.self, m.data)
             ELSE Did("none", m.self, 0, <<>>)

\* A status update as the spa sends it (lines 578-585), 31 bytes, with the
\* bytes x and y for the pumps (data[16] and data[17]).
StatusFrame(x, y) ==
    <<126, 29, 255, 175, 19, 0, 0, 100, 8, 45, 0, 0, 1, 0, 0, 4, x, y, 0, 0,
      0, 0, 0, 0, 0, 100, 0, 0, 0, 6, 126>>

\* Pump bytes: no pump running, and every byte that differs from it in one
\* bit; two settings of the second byte.
StatusFrames ==
    {StatusFrame(x, y) : x \in {0} \cup {2 ^ k : k \in 0..7}, y \in {0, 2, 4}}

\* Panel configuration responses (lines 540-541): one pump, six pumps.
PanelResponses ==
    {<<126, 11, 10, 191, 46, 10, 0, 1, 80, 0, 0, 191, 126>>,
     <<126, 11, 10, 191, 46, 170, 130, 1, 80, 0, 0, 191, 126>>}

\* The rest of TcpClient.__init__ (lines 129-130) after super().__init__()
\* has scheduled the listen task: line 129 looks up
\* asyncio.get_current_loop and runs connect, line 130 schedules listen.
TcpClient__init__(ok) ==
    /\ ctor = "none"
    /\ IF "get_current_loop" \notin AsyncioNames
       THEN ctor' = "AttributeError" /\ UNCHANGED <<instance, tasks>>
       ELSE LET c == tcp_connect(instance, ok)
            IN  /\ instance' = c.self
                /\ ctor' = IF c.exc = "none" THEN "returned" ELSE c.exc
                /\ tasks' = IF c.exc = "none" THEN tasks + 1 ELSE tasks
    /\ UNCHANGED <<client, codec, stream, nread, notified, writer, ret, peer>>

\* A listen task takes one turn of the loop of TcpClient.listen.
TcpListen(outcome, f) ==
    /\ tasks >= 1
    /\ raised = "none"
    /\ notified < MaxCalls
    /\ Len(writer) < MaxWrites
    /\ LET r == tcp_listen(instance, outcome, f)
       IN  /\ raised' = r.exc
           /\ instance' = r.self
           /\ notified' = notified + r.cb
           /\ writer' = writer \o r.out
    /\ UNCHANGED <<channel, queue, _channel_timeout, now, wire, errors, nrecv, last,
                   sent, pendingSince, connected, observed, codec, stream, nread,
                   tasks, ctor, ret, peer>>

\* A call of parse_status_update with the frame data.
ParseStatusUpdate(data) ==
    /\ notified < MaxCalls
    /\ Len(writer) < MaxWrites
    /\ LET r == parse_status_update(instance, data)
       IN  /\ instance' = r.self
           /\ notified' = notified + r.cb
           /\ writer' = writer \o r.out
           /\ res' = Raise(r.exc, "")
    /\ op' = "parse_status_update"
    /\ cls' = "TcpClient"
    /\ obj' = NoFrame
    /\ raw' = data
    /\ UNCHANGED <<client, stream, nread, tasks, ctor, ret, peer>>

\* Frames on the stream when read_one_message is called: a status update
\* with its checksum, the same with its last payload byte changed and the
\* checksum left as it was, and the same with another checksum byte.
ReadFrames ==
    LET good == Seal(SubSeq(StatusFrame(0, 0), 2, 29))
    IN  {good,
         Replace(good, Len(good) - 2, FlipBit(good[Len(good) - 2], 0)),
         Replace(good, Len(good) - 1, FlipBit(good[Len(good) - 1], 0))}

\* A call of read_one_message while the frame f is on the stream and both
\* reads return their bytes; ret is what the call returns.
ReadOneMessage(f) ==
    /\ LET r == read_one_message(instance, "data", f)
       IN  /\ instance' = r.self
           /\ ret' = r.data
           /\ res' = Raise(r.exc, "")
    /\ op' = "read_one_message"
    /\ cls' = "TcpClient"
    /\ obj' = NoFrame
    /\ raw' = f
    /\ UNCHANGED <<client, stream, nread, tasks, ctor, notified, writer, peer>>

\* A call of change_pump; raw records the arguments.
ChangePump(pump, newstate) ==
    /\ Len(writer) < MaxWrites
    /\ LET r == change_pump(instance, pump, newstate)
       IN  /\ instance' = r.self
           /\ writer' = writer \o r.out
           /\ res' = Raise(r.exc, "")
    /\ op' = "change_pump"
    /\ cls' = "TcpClient"
    /\ obj' = NoFrame
    /\ raw' = <<pump, newstate>>
    /\ UNCHANGED <<client, stream, nread, tasks, ctor, notified, ret, peer>>

\* A call of change_heatmode.
ChangeHeatmode(newmode) ==
    /\ Len(writer) < MaxWrites
    /\ LET r == change_heatmode(instance, newmode)
       IN  /\ instance' = r.self
           /\ writer' = writer \o r.out
           /\ res' = Raise(r.exc, "")
    /\ op' = "change_heatmode"
    /\ cls' = "TcpClient"
    /\ obj' = NoFrame
    /\ raw' = <<newmode>>
    /\ UNCHANGED <<client, stream, nread, tasks, ctor, notified, ret, peer>>

\* A call of change_blower.
ChangeBlower(newstate) ==
    /\ Len(writer) < MaxWrites
    /\ LET r == change_blower(instance, newstate)
       IN  /\ instance' = r.self
           /\ writer' = writer \o r.out
           /\ res' = Raise(r.exc, "")
    /\ op' = "change_blower"
    /\ cls' = "TcpClient"
    /\ obj' = NoFrame
    /\ raw' = <<newstate>>
    /\ UNCHANGED <<client, stream, nread, tasks, ctor, notified, ret, peer>>

\* A call of parse_panel_config_resp with the response data.
ParsePanelConfigResp(data) ==
    /\ LET r == parse_panel_config_resp(instance, data)
       IN  /\ instance' = r.self
           /\ res' = Raise(r.exc, "")
    /\ op' = "parse_panel_config_resp"
    /\ cls' = "TcpClient"
    /\ obj' = NoFrame
    /\ raw' = data
    /\ UNCHANGED <<client, stream, nread, tasks, ctor, notified, writer, ret, peer>>

TcpInit == Init /\ channel = None

TcpNext ==
    \/ \E ok \in BOOLEAN : TcpClient__init__(ok)
    \/ \E outcome \in ReadOutcomes, f \in StatusFrames : TcpListen(outcome, f)
    \/ \E data \in StatusFrames : ParseStatusUpdate(data)
    \/ \E data \in PanelResponses : ParsePanelConfigResp(data)
    \/ \E f \in ReadFrames : ReadOneMessage(f)
    \/ \E pump \in 0..1, newstate \in 0..2 : ChangePump(pump, newstate)
    \/ \E newmode \in 0..3 : ChangeHeatmode(newmode)
    \/ \E newstate \in 0..3 : ChangeBlower(newstate)

TcpSpec == TcpInit /\ [][TcpNext]_vars

---------------------------------------------------------------------------
\* Vocabulary of the properties.

\* This step is one turn of the listen loop; last' is the frame it handles.
Handled == nrecv' = nrecv + 1

\* This step handles a ClientClearToSend addressed to the client's channel.
Granted ==
    /\ Handled
    /\ channel # None
    /\ last'.channel = channel
    /\ last'.type_code = ClientClearToSend_TYPE_CODE

\* This step is a call of send; the message is the last of sent'.
Enqueued == Len(sent') = Len(sent) + 1

Unassigned == channel = None

\* The channel's deadline has passed.
Stale == channel # None /\ _channel_timeout # None /\ now > _channel_timeout

\* Messages taken from the queue so far.
Taken == Len(sent) - Len(queue)

\* The frames on the wire that carry a queued message (byte 5 is the type code).
QueueFrames ==
    SelectSeq(wire, LAMBDA f : f[5] \in {ToggleItemRequest_TYPE_CODE,
                                         SetTemperatureRequest_TYPE_CODE})

\* The frames of the channel handshake as the client writes them.
RequestFrame == __bytes__(ChannelAssignmentRequest(<<2, 241, 115>>))
AckFrame(ch) == __bytes__(ChannelAssignmentAcknowlegement(ch))

---------------------------------------------------------------------------
\* C1: arbitration happy path. A client that starts without a channel, with
\* one message enqueued while it had none, after receiving exactly
\* NewClientClearToSend, ChannelAssignmentResponse(5), ClientClearToSend(5)
\* has written ChannelAssignmentRequest, ChannelAssignmentAcknowledgement(5)
\* and the pending message on channel 5, holds channel 5 and has an empty queue.
\* (Three frames were received, the first two produced the two handshake
\* frames, the third is the grant.)
C1_HappyPath ==
    ( /\ nrecv = 3
      /\ last = Message(5, ClientClearToSend_TYPE_CODE, <<>>)
      /\ Len(sent) = 1
      /\ sent[1].channel = None
      /\ Len(wire) >= 2
      /\ wire[1] = RequestFrame
      /\ wire[2] = AckFrame(5) )
    => /\ wire = <<RequestFrame, AckFrame(5), __bytes__([sent[1] EXCEPT !.channel = 5])>>
       /\ channel = 5
       /\ queue = <<>>

\* C2: a message leaves the queue only in a step that handles a
\* ClientClearToSend addressed to the client's own channel; such a step removes
\* exactly the head and writes at most one frame; no other frame, on any
\* channel and in any arbitration state, changes the queue.
C2_DrainOnlyOnGrant ==
    [][ /\ (Len(queue') < Len(queue)) => Granted
        /\ (Handled /\ ~Granted) => queue' = queue
        /\ Granted
            => /\ queue' = IF queue = <<>> THEN <<>> ELSE Tail(queue)
               /\ Len(wire') <= Len(wire) + 1 ]_vars

\* A grant has taken the first of two queued messages and written it.
C2_Witness ==
    /\ channel # None
    /\ last = Message(channel, ClientClearToSend_TYPE_CODE, <<>>)
    /\ Len(sent) = 2
    /\ queue = <<sent[2]>>
    /\ sent[1].channel # None
    /\ wire # <<>>
    /\ wire[Len(wire)] = __bytes__(sent[1])

\* C3: the queued messages that reach the wire are the first messages enqueued,
\* in enqueue order, one frame per message (equal messages are not merged, none
\* is written twice), and the queue holds the rest in enqueue order; a message
\* is taken without being written only when writing it raised.
C3_Fifo ==
    /\ Taken >= 0
    /\ queue = SubSeq(sent, Taken + 1, Len(sent))
    /\ Len(QueueFrames) <= Taken
    /\ Taken <= Len(QueueFrames) + 1
    /\ (raised = "none") => Len(QueueFrames) = Taken
    /\ \A i \in 1..Len(QueueFrames) :
          /\ BytesRaises(sent[i]) = "none"
          /\ QueueFrames[i] = __bytes__(sent[i])

\* The same pump toggle enqueued twice, two grants: two frames on the wire.
C3_Witness ==
    /\ sent = <<ToggleItemRequest(5, PUMP_1), ToggleItemRequest(5, PUMP_1)>>
    /\ queue = <<>>
    /\ QueueFrames = <<<<126, 7, 5, 191, 17, 4, 0, 181, 126>>,
                       <<126, 7, 5, 191, 17, 4, 0, 181, 126>>>>

\* C4: idle grant. A ClientClearToSend addressed to the channel of a client
\* whose queue is empty writes exactly one frame, NothingToSend on that
\* channel, and leaves the queue empty.
C4_IdleGrant ==
    [][ (Granted /\ queue = <<>>)
            => /\ wire' = Append(wire, __bytes__(NothingToSend(channel)))
               /\ queue' = <<>> ]_vars

\* An idle grant on channel 5 has just written 7E 05 05 BF 07 39 7E.
C4_Witness ==
    /\ channel = 5
    /\ last = Message(5, ClientClearToSend_TYPE_CODE, <<>>)
    /\ sent = <<>>
    /\ wire # <<>>
    /\ wire[Len(wire)] = <<126, 5, 5, 191, 7, 57, 126>>

\* C5: on a grant, a head message that was enqueued while the client had no
\* channel is written carrying the client's channel, and the listen task goes on.
C5_StampedOnGrant ==
    [][ (Granted /\ queue # <<>> /\ Head(queue).channel = None)
            => /\ wire' = Append(wire, __bytes__([Head(queue) EXCEPT !.channel = channel]))
               /\ raised' = "none" ]_vars

\* C6: a call of send while the client is Unassigned or Stale raises nothing,
\* writes nothing and appends the message to the tail of the queue; and no
\* step other than a grant removes anything from the queue, so the message is
\* there when the next grant arrives.
C6_EnqueueOnly ==
    [][ /\ (Enqueued /\ (Unassigned \/ Stale))
            => /\ queue' = Append(queue, sent'[Len(sent')])
               /\ wire' = wire
               /\ raised' = raised
               /\ errors' = errors
        /\ ~Granted
            => /\ Len(queue') >= Len(queue)
               /\ SubSeq(queue', 1, Len(queue)) = queue ]_vars

\* A message enqueued while Unassigned waits at the head of the queue when the
\* client has been assigned a channel; nothing but the handshake is on the wire.
C6_Witness ==
    /\ channel = 5
    /\ queue # <<>>
    /\ queue = sent
    /\ Head(queue).channel = None
    /\ wire = <<RequestFrame, AckFrame(5)>>
    /\ raised = "none"

\* A message enqueued while Stale is in the queue.
C6_WitnessStale ==
    /\ Stale
    /\ queue # <<>>
    /\ queue = sent
    /\ raised = "none"

\* C7: delivery by grants. Each grant handled while the queue is not empty
\* transmits the head message (its type code and payload) and moves every other
\* message one place forward, and the listen task keeps running, so that the
\* message with k messages ahead of it goes out on the (k+1)-th grant.
C7_GrantDelivers ==
    [][ (Granted /\ queue # <<>>)
            => /\ Len(wire') = Len(wire) + 1
               /\ SubSeq(wire'[Len(wire')], 5, 5 + Len(Head(queue).arguments))
                    = <<Head(queue).type_code>> \o Head(queue).arguments
               /\ queue' = Tail(queue)
               /\ raised' = "none" ]_vars

\* C8: grant timeout. A client that has held its channel for more than ten
\* seconds without any frame addressed to it (so without ExistingClientRequest
\* and without ClientClearToSend) logs the diagnostic, and is Stale, once a
\* frame addressed to another channel is handled.
C8_GrantTimeout ==
    [][ ( /\ Handled
          /\ channel # None
          /\ last'.channel # channel
          /\ pendingSince # None
          /\ now > pendingSince + CHANNEL_TIMEOUT )
            => errors' = errors + 1 /\ Stale' ]_vars

\* C9: a client without a channel that handles a ChannelAssignmentResponse
\* records the channel, writes the acknowledgement on it and arms the
\* deadline ten seconds ahead.
C9_ArmedOnAssignment ==
    [][ ( /\ Handled
          /\ channel = None
          /\ last'.type_code = ChannelAssignmentResponse_TYPE_CODE
          /\ last'.arguments # <<>> )
            => /\ channel' = last'.arguments[1]
               /\ wire' = Append(wire, AckFrame(last'.arguments[1]))
               /\ _channel_timeout' = now + CHANNEL_TIMEOUT ]_vars

\* C10: an ExistingClientRequest addressed to the client's channel is answered
\* with exactly one ExistingClientResponse on that channel with payload
\* 04 08 00, and the listen task goes on to the next frame.
C10_ExistingClientReply ==
    [][ ( /\ Handled
          /\ channel # None
          /\ last'.channel = channel
          /\ last'.type_code = ExistingClientRequest_TYPE_CODE )
            => /\ wire' = Append(wire, __bytes__(ExistingClientResponse(channel, <<4, 8, 0>>)))
               /\ raised' = "none" ]_vars

\* This step handles an ExistingClientRequest addressed to the client's channel.
Asked ==
    /\ Handled
    /\ channel # None
    /\ last'.channel = channel
    /\ last'.type_code = ExistingClientRequest_TYPE_CODE

\* This step handles a frame addressed to another channel than the client's.
Foreign ==
    /\ Handled
    /\ channel # None
    /\ last'.channel # channel

\* C11: after handling a ClientClearToSend addressed to its channel the
\* deadline is disarmed; after handling an ExistingClientRequest addressed to
\* its channel the deadline is armed again, ten seconds ahead.
C11_OwnChannelTimeout ==
    [][ /\ Granted => _channel_timeout' = None
        /\ Asked => _channel_timeout' = now + CHANNEL_TIMEOUT ]_vars

\* C12: while the client holds a channel, a frame addressed to any other
\* channel writes nothing and leaves the channel, the queue and the deadline
\* as they were; the only effect is the expiry check, which logs exactly when
\* the deadline has passed.
C12_ForeignIgnored ==
    [][ Foreign
          => /\ wire' = wire
             /\ channel' = channel
             /\ queue' = queue
             /\ _channel_timeout' = _channel_timeout
             /\ raised' = "none"
             /\ errors' = IF Stale THEN errors + 1 ELSE errors ]_vars

\* A client that holds channel 5 with a request queued and the deadline armed
\* has handled the board's invitation to new clients, and nothing else.
C12_Witness ==
    /\ channel = 5
    /\ nrecv = 1
    /\ last = Message(ARBITRATION_CHANNEL, NewClientClearToSend_TYPE_CODE, <<>>)
    /\ queue # <<>>
    /\ _channel_timeout = CHANNEL_TIMEOUT
    /\ wire = <<>>

\* C13: expiry is passive.  Once the deadline has passed, time and frames for
\* other channels write nothing and keep the channel and the queue, and a
\* ClientClearToSend or ExistingClientRequest addressed to the client's channel
\* is still answered with one frame, the listen task going on.
C13_PassiveExpiry ==
    [][ Stale
          => /\ (~Handled \/ Foreign)
                 => (wire' = wire /\ channel' = channel
                     /\ (Handled => queue' = queue))
             /\ (Granted \/ Asked)
                 => (Len(wire') = Len(wire) + 1 /\ channel' = channel
                     /\ raised' = "none") ]_vars

---------------------------------------------------------------------------
\* The codec's properties, checked under CodecSpec.

\* One bit of the bit-by-bit CRC-8, most significant bit first: shift left
\* and exclusive-or the polynomial 0x07 in when the bit shifted out was set.
ShiftStep(c) == IF c >= 128 THEN Xor((c * 2) % 256, 7) ELSE (c * 2) % 256

\* One byte of the bit-by-bit CRC-8: the byte enters unreflected, then 8 bits.
ByteStep(c, b) ==
    ShiftStep(ShiftStep(ShiftStep(ShiftStep(
        ShiftStep(ShiftStep(ShiftStep(ShiftStep(Xor(c, b)))))))))

RECURSIVE BitwiseLoop(_, _)
BitwiseLoop(c, data) ==
    IF data = <<>> \/ c \notin 0..255 THEN c
    ELSE IF Len(data) = 1 THEN ByteStep(c, data[1])
    ELSE LET h == Len(data) \div 2
         IN  BitwiseLoop(BitwiseLoop(c, SubSeq(data, 1, h)),
                         SubSeq(data, h + 1, Len(data)))

\* CRC-8 with polynomial 0x07, initial value 0x02 and final XOR 0x02.
Crc8(data) == Xor(BitwiseLoop(2, data), 2)

\* The first and the last byte of raw are delimiters.
Delimited == raw # <<>> /\ raw[1] = DELIMITER /\ raw[Len(raw)] = DELIMITER

\* C15: for every message a constructor of the catalog returns, the class's
\* from_bytes applied to the serialized bytes succeeds and yields a message
\* with the same channel, type code and payload.
C15_RoundTrip ==
    op = "roundtrip" => (res.exc = "none" /\ res.msg = obj)

\* C16: for a channel and a type code in 0..255, serialization fails exactly
\* when the payload is longer than 250 bytes, and otherwise yields 7E, the
\* length 5 + len(payload), the channel, the flag (AF exactly for channel FF,
\* else BF), the type code, the payload, the CRC-8 of the bytes from the
\* length through the payload, and 7E: len(payload) + 7 bytes.
C16_Layout ==
    (op = "bytes" /\ obj.channel \in 0..255 /\ obj.type_code \in 0..255)
      => LET p == obj.arguments
             head == <<5 + Len(p), obj.channel,
                       IF obj.channel = 255 THEN 175 ELSE 191, obj.type_code>>
         IN  /\ (res.exc # "none") <=> (Len(p) > 250)
             /\ res.exc = "none"
                  => /\ raw = <<126>> \o head \o p \o <<Crc8(head \o p), 126>>
                     /\ Len(raw) = Len(p) + 7

\* A broadcast message with a payload of 250 bytes has been serialized.
C16_Witness ==
    /\ op = "bytes"
    /\ obj.channel = 255
    /\ Len(obj.arguments) = 250
    /\ res.exc = "none"
    /\ Len(raw) = 257
    /\ raw[2] = 255
    /\ raw[4] = 175

\* C17: decoding bytes that are fewer than 7, or whose first or last byte is
\* not 7E, fails with the delimiter error and returns no frame.
C17_FramingError ==
    (op = "from_bytes" /\ (Len(raw) < 7 \/ ~Delimited))
      => res = Raise("ValueError", BadDelimiter)

\* C18: decoding delimiter-bounded bytes whose length byte differs from the
\* number of bytes between the delimiters fails with the length error,
\* whatever the checksum byte is.
C18_LengthError ==
    (op = "from_bytes" /\ Len(raw) >= 3 /\ Delimited /\ raw[2] # Len(raw) - 2)
      => res = Raise("ValueError", BadLength)

\* The frame of a ToggleItemRequest with its length byte raised by one and
\* the checksum of the bytes as they are has been decoded.
C18_Witness ==
    /\ op = "from_bytes"
    /\ cls = "Message"
    /\ raw = <<126, 8, 5, 191, 17, 4, 0, Crc8(<<8, 5, 191, 17, 4, 0>>), 126>>
    /\ res = Raise("ValueError", BadLength)

\* C19: Message.from_bytes on a frame with correct delimiters and length
\* succeeds exactly when the trailing byte is the CRC-8 of the interior
\* without it; otherwise it fails with the checksum error, in particular for
\* a well-formed frame with one bit of its checksum inverted; on success the
\* message has the channel, type code and payload found in the bytes.
C19_Checksum ==
    (op = "from_bytes" /\ cls = "Message" /\ Len(raw) >= 7 /\ Delimited
        /\ raw[2] = Len(raw) - 2)
      => LET n == Len(raw)
         IN  /\ (res.exc = "none") <=> (raw[n - 1] = Crc8(SubSeq(raw, 2, n - 2)))
             /\ res.exc # "none" => res = Raise("ValueError", BadChecksum)
             /\ res.exc = "none"
                  => res = Return(Message(raw[3], raw[5], SubSeq(raw, 6, n - 2)))
             /\ \A f \in SampleFrames, k \in 0..7 :
                    raw = Replace(f, Len(f) - 1, FlipBit(f[Len(f) - 1], k))
                      => res = Raise("ValueError", BadChecksum)

\* The frame of ToggleItemRequest(5, PUMP_1), checksum B5, has been decoded
\* with the lowest bit of the checksum inverted.
C19_Witness ==
    /\ op = "from_bytes"
    /\ cls = "Message"
    /\ raw = <<126, 7, 5, 191, 17, 4, 0, 180, 126>>
    /\ res = Raise("ValueError", BadChecksum)

\* C20: Message.crc equals the bit-by-bit CRC-8 (polynomial 0x07, initial
\* value 0x02, final XOR 0x02, no reflection) on every byte sequence, every
\* intermediate value of its loop is in 0..255, and it gives F9 for the
\* interior of the captured information response.
C20_TableIsCrc8 ==
    op = "crc"
      => /\ res.crc = Crc8(raw)
         /\ \A n \in 0..Len(raw) : CrcLoop(2, SubSeq(raw, 1, n)) \in 0..255
         /\ raw = InformationResponseInterior => res.crc = 249

\* The checksum of the captured interior has been computed.
C20_Witness ==
    /\ op = "crc"
    /\ raw = InformationResponseInterior
    /\ res.crc = 249

---------------------------------------------------------------------------
\* C21: a well-formed frame whose type code belongs to no class of the
\* catalog is rejected by the decode, so that _onmessage and onmessage
\* never see it: every frame the listen loop has handled carries a type
\* code of the catalog.
C21_UnknownTypeRejected ==
    nrecv > 0 => last.type_code \in CatalogTypeCodes

\* A frame that breaks what its class pins: an invitation or an assignment
\* that is not on channel FE, or an assignment whose length is not 8 (5
\* bytes of frame and 3 of payload).
Unpinned(m) ==
    \/ /\ m.type_code \in {NewClientClearToSend_TYPE_CODE, ChannelAssignmentResponse_TYPE_CODE}
       /\ m.channel # ARBITRATION_CHANNEL
    \/ /\ m.type_code = ChannelAssignmentResponse_TYPE_CODE
       /\ Len(m.arguments) + 5 # 8

\* C22: the client acts on a frame only if it has the length and the
\* channel its class pins: an invitation or an assignment off channel FE,
\* or an assignment whose length is not 8, causes no outbound frame, no
\* channel assignment and no exception.
C22_PinnedChannelAndLength ==
    [][(nrecv' = nrecv + 1 /\ Unpinned(last'))
          => (wire' = wire /\ channel' = channel /\ raised' = raised)]_vars

\* A request was written before this step.
Requesting == \E k \in 1..Len(wire) : wire[k] = RequestFrame

\* C27: a channel is recorded from a ChannelAssignmentResponse only while a
\* request is outstanding: an assignment handled by a client that has no
\* channel and has written no ChannelAssignmentRequest assigns no channel
\* and writes no acknowledgement.
C27_AssignOnlyWhenRequesting ==
    [][(/\ Handled
        /\ channel = None
        /\ ~Requesting
        /\ last'.type_code = ChannelAssignmentResponse_TYPE_CODE)
          => (channel' = None /\ wire' = wire)]_vars

\* f is a ChannelAssignmentRequest on channel FE with the payload 02 F1 73.
IsRequest(f) ==
    /\ Len(f) = 10
    /\ f[1] = DELIMITER /\ f[10] = DELIMITER
    /\ f[3] = ARBITRATION_CHANNEL
    /\ f[5] = ChannelAssignmentRequest_TYPE_CODE
    /\ SubSeq(f, 6, 8) = <<2, 241, 115>>

\* C28: while the client has no channel, handling a NewClientClearToSend
\* writes exactly one frame, a ChannelAssignmentRequest on channel FE with
\* the 3-byte payload; handling a frame of any other type than
\* ChannelAssignmentResponse writes nothing; and the channel stays unset
\* unless the frame handled is a ChannelAssignmentResponse.
C28_UnassignedHandshake ==
    [][(Handled /\ channel = None) =>
          /\ last'.type_code = NewClientClearToSend_TYPE_CODE
                => (Len(wire') = Len(wire) + 1
                    /\ SubSeq(wire', 1, Len(wire)) = wire
                    /\ IsRequest(wire'[Len(wire')]))
          /\ last'.type_code \notin {NewClientClearToSend_TYPE_CODE,
                                     ChannelAssignmentResponse_TYPE_CODE}
                => wire' = wire
          /\ last'.type_code # ChannelAssignmentResponse_TYPE_CODE
                => channel' = None]_vars

\* The client without a channel has answered an invitation with one request
\* and has then handled a frame of another type without writing anything.
C28_Witness ==
    /\ channel = None
    /\ raised = "none"
    /\ nrecv >= 2
    /\ Len(wire) = 1 /\ IsRequest(wire[1])
    /\ last.type_code \notin {NewClientClearToSend_TYPE_CODE,
                              ChannelAssignmentResponse_TYPE_CODE}

\* This step is a call of parse_status_update; raw' is the frame given.
StatusCall == op' = "parse_status_update" /\ <<op', raw'>> # <<op, raw>>

\* a and b differ in exactly one bit of one byte.
OneBitApart(a, b) ==
    /\ Len(a) = Len(b)
    /\ \E i \in 1..Len(a) :
           /\ \E k \in 0..7 : b[i] = FlipBit(a[i], k)
           /\ \A j \in 1..Len(a) : j # i => a[j] = b[j]

\* C23: status change detection. A call of parse_status_update returns;
\* once a frame is stored, a frame with the same bytes changes nothing and
\* notifies nobody, and a frame that differs from the stored one in a single
\* bit replaces the stored bytes and notifies the observer exactly once.
C23_StatusDiffing ==
    [][StatusCall =>
          /\ res'.exc = "none"
          /\ (Has(instance, "prior_status") /\ raw' = instance.prior_status)
                => (instance' = instance /\ notified' = notified)
          /\ (Has(instance, "prior_status") /\ OneBitApart(instance.prior_status, raw'))
                => (instance'.prior_status = raw' /\ notified' = notified + 1)]_vars

\* C24: no failure of the receive path reaches the caller of recv: the
\* listen task never ends in a step in which recv returned no frame, so
\* that bad bytes are dropped and the frames after them are still handled.
C24_NoDecodeEscape ==
    [][raised' # raised => Handled]_vars

\* C25: each client instance has exactly one receive task: once the
\* constructor of TcpClient has run, it has returned an instance and one
\* listen task is scheduled for it.
C25_OneReceiveTask ==
    ctor # "none" => (ctor = "returned" /\ tasks = 1)

\* C26: a read failure never terminates the client: the listen task of a
\* TcpClient is never ended by an exception (the connection is marked lost
\* and the loop goes on).
C26_ReadFailureSurvived ==
    raised = "none"

\* The stream is a run of bytes without a delimiter, a delimiter (the end of
\* a frame whose beginning was missed), and one well-formed frame right
\* after it.
BackToBack(s) ==
    \E k \in 1..Len(s) :
        /\ s[k] = DELIMITER
        /\ \A j \in 1..(k - 1) : s[j] # DELIMITER
        /\ Len(s) >= k + 7
        /\ Message_from_bytes("Message", SubSeq(s, k + 1, Len(s))).exc = "none"

\* The frame at the end of such a stream.
Following(s) ==
    LET k == CHOOSE k \in 1..Len(s) : s[k] = DELIMITER /\ \A j \in 1..(k - 1) : s[j] # DELIMITER
    IN  Message_from_bytes("Message", SubSeq(s, k + 1, Len(s))).msg

\* C29: adjacent delimiters. When the listen task has gone as far as it can
\* (it has ended, or recv waits for more bytes) on a stream that ends a
\* frame with a delimiter and begins the next frame right after it, the
\* frame that follows has been handled, intact, whether or not other bytes
\* came before the first delimiter.
C29_AdjacentDelimiters ==
    (BackToBack(stream) /\ (raised # "none" \/ recv(stream, nread).exc = "waiting"))
        => (nrecv = 1 /\ last = Following(stream))

\* The 2-bit field of pump p (1..6) in the frame b: bits 2(p-1).. of payload
\* byte 11 (the 17th byte of the frame) for pumps 1..4, bits 2(p-5).. of
\* payload byte 12 for pumps 5 and 6.
PumpField(b, p) ==
    IF p <= 4 THEN Bits2(b[17], 2 * (p - 1)) ELSE Bits2(b[18], 2 * (p - 5))

\* C30: pump speed decoding. After a call of parse_status_update the state
\* of every configured pump p in 1..6 is the 2-bit field of p in the frame.
C30_PumpDecoding ==
    op = "parse_status_update" =>
        /\ res.exc = "none"
        /\ Has(instance, "pump_array") /\ Has(instance, "pump_status")
        /\ \A p \in 1..6 :
               instance.pump_array[p] # 0 => instance.pump_status[p] = PumpField(raw, p)

\* C31: in every decoder the decoded heating state equals bits 4-5 of
\* payload byte 10 of the status frame and the decoded temperature range
\* equals bit 3 of that byte; here for StatusUpdate.from_bytes, on every
\* frame Message.from_bytes accepts.
C31_HeatingBits ==
    (op = "from_bytes" /\ cls = "StatusUpdate"
        /\ Message_from_bytes(cls, raw).exc = "none")
      => LET a == Message_from_bytes(cls, raw).msg.arguments
             f == StatusUpdate_fields(a)
         IN  /\ f.heating_status = Bits2(a[11], 4)
             /\ f.temperature_range = (a[11] \div 8) % 2

\* The derived fields of self are those its stored status bytes decode to
\* under its configuration.
Snapshot(self) ==
    LET d == self.prior_status
    IN  /\ \A n \in {"heatmode", "heatstate", "temprange", "pump_array",
                      "pump_status", "blower"} : Has(self, n)
        /\ self.heatmode = heatmode(d)
        /\ self.heatstate = heatstate(d)
        /\ self.temprange = temprange(d)
        /\ \A p \in 1..6 :
               self.pump_array[p] # 0 => self.pump_status[p] = PumpStatus(d, p - 1)
        /\ self.blower # 0 =>
               (Has(self, "blower_status") /\ self.blower_status = blower_status(d))

\* C32: after every processed inbound frame (a status update or a panel
\* configuration response) the handler has returned and every derived
\* device-state field equals the value decoded from the stored raw status
\* bytes under the current configuration: never partially updated or stale.
C32_SnapshotConsistent ==
    op \in {"parse_status_update", "parse_panel_config_resp"} =>
        /\ res.exc = "none"
        /\ Has(instance, "prior_status") => Snapshot(instance)

\* This step is a call of the command helper name; raw' holds its arguments.
HelperCall(name) == op' = name /\ <<op', raw', writer'>> # <<op, raw, writer>>

\* (new - cur) mod m, the number of presses of a button that cycles through
\* m states.
Presses(new, cur, m) == (new - cur) % m

\* C33: change_pump for a two-speed pump writes (newstate - current) mod 3
\* toggle requests, change_heatmode (newmode - current) mod 3 and
\* change_blower (newstate - current) mod 4; none when the target equals the
\* current state.
C33_ToggleCount ==
    [][/\ HelperCall("change_pump") =>
              /\ res'.exc = "none"
              /\ (Has(instance, "pump_array") /\ Has(instance, "pump_status")
                      /\ instance.pump_array[raw'[1] + 1] = 2)
                    => Len(writer') - Len(writer)
                         = Presses(raw'[2], instance.pump_status[raw'[1] + 1], 3)
       /\ HelperCall("change_heatmode") =>
              /\ res'.exc = "none"
              /\ (Has(instance, "heatmode") /\ raw'[1] <= 2)
                    => Len(writer') - Len(writer)
                         = Presses(raw'[1], instance.heatmode, 3)
       /\ HelperCall("change_blower") =>
              /\ res'.exc = "none"
              /\ Has(instance, "blower_status")
                    => Len(writer') - Len(writer)
                         = Presses(raw'[1], instance.blower_status, 4)]_vars

\* C34: once the client has recorded a channel, the channel never changes
\* and never reverts to unset; an assignment of another channel that
\* arrives later is ignored.
C34_ChannelStable ==
    [][channel # None => channel' = channel]_vars

\* The client holds a channel and the frame it handled last is an assignment
\* of a different channel.
C34_Witness ==
    /\ channel # None
    /\ last.type_code = ChannelAssignmentResponse_TYPE_CODE
    /\ last.arguments # <<>>
    /\ last.arguments[1] # channel
    /\ Len(wire) >= 1
    /\ wire[Len(wire)] = __bytes__(ChannelAssignmentAcknowlegement(channel))

\* C35: two clients that share a bus never hold the same channel: each
\* records only the channel the board issued for its own request.
C35_DistinctChannels ==
    (channel # None /\ peer.channel # None) => channel # peer.channel

\* The frame msg invites a client whose channel is ch to write: the board's
\* invitation or an assignment while the client has no channel, an
\* ExistingClientRequest or a ClientClearToSend on the client's channel.
Inviting(msg, ch) ==
    \/ /\ ch = None
       /\ msg.type_code \in {NewClientClearToSend_TYPE_CODE,
                              ChannelAssignmentResponse_TYPE_CODE}
    \/ /\ ch # None
       /\ msg.channel = ch
       /\ msg.type_code \in {ExistingClientRequest_TYPE_CODE,
                              ClientClearToSend_TYPE_CODE}

C37_OneDiagnostic == errors <= 1

\* C38: for every b that Message.from_bytes accepts, bytes(Message.from_bytes(b))
\* is b again: decoding accepts only frames whose flag byte is AF when the
\* channel is FF and BF otherwise.
C38_DecodeEncode ==
    (op = "from_bytes" /\ cls = "Message" /\ res.exc = "none")
      => /\ BytesRaises(res.msg) = "none"
         /\ __bytes__(res.msg) = raw

\* C39: read_one_message returns the frame it read exactly when
\* Message.from_bytes accepts that frame (both take the checksum over the
\* same span), and returns None otherwise.
C39_SameAcceptance ==
    op = "read_one_message" =>
        /\ res.exc = "none"
        /\ (ret = raw) <=> (Message_from_bytes("Message", raw).exc = "none")
        /\ ret \in {raw, <<>>}

\* The configuration has not been loaded: config_loaded is unset or false.
NotConfigured(self) == ~Has(self, "config_loaded") \/ ~self.config_loaded

\* C40: until a panel configuration response has been processed, a status
\* frame leaves the device state and the prior status unchanged, notifies
\* nobody and causes exactly one panel configuration request to be written.
C40_AskUntilConfigured ==
    [][(StatusCall /\ NotConfigured(instance)) =>
          /\ res'.exc = "none"
          /\ instance' = instance
          /\ notified' = notified
          /\ Len(writer') = Len(writer) + 1
          /\ writer'[Len(writer')] = Seal(<<8, 10, 191, 34, 0, 0, 1>>)]_vars

====
